---- MODULE Spec2Model ----
(***************************************************************************)
(* Model of the Stirling PDF MCP server (src/src/index.ts): the codec,     *)
(* the validator, the API gateway client, the ten tool handlers and the    *)
(* CallTool dispatcher.                                                    *)
(*                                                                         *)
(* Text is a sequence of chunks.  A chunk is a one-character string where  *)
(* the program looks at characters (arguments, base64 text, data URLs) and *)
(* a literal fragment of a template where it only concatenates.  Bytes are *)
(* integers 0..255.  A JSON value is a record tagged with its JS type.     *)
(***************************************************************************)
EXTENDS Integers, Sequences, FiniteSets, TLC

\* ------------------------------------------------------------------ bounds

\* Longest buffer the codec is exercised on.
MaxBufferLen == 3

\* Longest list of files an invocation carries (merge_pdfs, convert_images_to_pdf).
MaxFiles == 3

\* Number of clock steps the model takes to let the request timeout elapse.
TicksPerTimeout == 2

\* ---------------------------------------------------------- sequence helpers

RECURSIVE Flatten(_)
Flatten(ss) == IF ss = <<>> THEN <<>> ELSE Head(ss) \o Flatten(Tail(ss))

StartsWith(s, p) == Len(s) >= Len(p) /\ SubSeq(s, 1, Len(p)) = p

\* p occurs in s as a contiguous run of chunks
Contains(s, p) ==
  \E i \in 1..(Len(s) - Len(p) + 1) : SubSeq(s, i, i + Len(p) - 1) = p

\* position of the first chunk equal to c, 0 when there is none
FirstIndex(s, c) ==
  IF \E i \in 1..Len(s) : s[i] = c
  THEN CHOOSE i \in 1..Len(s) : s[i] = c /\ \A j \in 1..(i - 1) : s[j] # c
  ELSE 0

SeqsUpTo(S, n) == UNION {[1..k -> S] : k \in 0..n}

\* ------------------------------------------------------------- JS strings

Whitespace == {" ", "\t", "\n"}

\* String.prototype.trim
RECURSIVE TrimLeft(_)
TrimLeft(s) ==
  IF s # <<>> /\ Head(s) \in Whitespace THEN TrimLeft(Tail(s)) ELSE s

RECURSIVE TrimRight(_)
TrimRight(s) ==
  IF s # <<>> /\ s[Len(s)] \in Whitespace
  THEN TrimRight(SubSeq(s, 1, Len(s) - 1)) ELSE s

Trim(s) == TrimRight(TrimLeft(s))

\* String.prototype.split(","): the pieces between the commas, in order
RECURSIVE Split(_, _)
Split(s, sep) ==
  LET i == FirstIndex(s, sep) IN
  IF i = 0 THEN <<s>>
  ELSE <<SubSeq(s, 1, i - 1)>> \o Split(SubSeq(s, i + 1, Len(s)), sep)

\* --------------------------------------------------------------- base64

Alphabet ==
  << "A","B","C","D","E","F","G","H","I","J","K","L","M","N","O","P",
     "Q","R","S","T","U","V","W","X","Y","Z","a","b","c","d","e","f",
     "g","h","i","j","k","l","m","n","o","p","q","r","s","t","u","v",
     "w","x","y","z","0","1","2","3","4","5","6","7","8","9","+","/" >>

\* Buffer.prototype.toString("base64"): 6 bits per character, "=" padding
ByteAt(b, i) == IF i <= Len(b) THEN b[i] ELSE 0

SextetOfBytes(b, k) ==
  LET q == (6 * k) \div 8
      r == (6 * k) % 8
  IN ((ByteAt(b, q + 1) * 256 + ByteAt(b, q + 2)) \div 2^(10 - r)) % 64

Base64Encode(b) ==
  LET n   == (8 * Len(b) + 5) \div 6
      pad == (4 - (n % 4)) % 4
  IN [k \in 1..n |-> Alphabet[SextetOfBytes(b, k - 1) + 1]]
       \o [k \in 1..pad |-> "="]

\* Buffer.from(text, "base64"): characters outside the alphabet are skipped,
\* decoding stops at the first "=", a trailing partial group yields the bytes
\* it completes; it never throws.
IsBase64Char(c) == c \in {"-", "_"} \/ \E i \in 1..64 : Alphabet[i] = c

SextetOfChar(c) ==
  IF c = "-" THEN 62 ELSE IF c = "_" THEN 63
  ELSE (CHOOSE i \in 1..64 : Alphabet[i] = c) - 1

Base64Decode(s) ==
  LET stop == FirstIndex(s, "=")
      used == IF stop = 0 THEN s ELSE SubSeq(s, 1, stop - 1)
      legal == SelectSeq(used, IsBase64Char)
      n == (6 * Len(legal)) \div 8
      Byte(j) ==
        LET q == (8 * j) \div 6
            r == (8 * j) % 6
        IN ((SextetOfChar(legal[q + 1]) * 64 + SextetOfChar(legal[q + 2]))
              \div 2^(4 - r)) % 256
  IN [j \in 1..n |-> Byte(j - 1)]

\* ------------------------------------------------------------ JSON values

Undefined == [t |-> "undefined"]
Null      == [t |-> "null"]
Str(s)    == [t |-> "string", s |-> s]
Num(n)    == [t |-> "number", n |-> n]
Arr(a)    == [t |-> "array", a |-> a]
Obj(o)    == [t |-> "object", o |-> o]

\* a literal fragment of a template, as a string value
Lit(c) == Str(<<c>>)

\* JS truthiness of a JSON value
Truthy(v) ==
  CASE v.t = "undefined" -> FALSE
    [] v.t = "null"      -> FALSE
    [] v.t = "string"    -> v.s # <<>>
    [] v.t = "number"    -> v.n # 0
    [] OTHER             -> TRUE

\* a || d
OrElse(v, d) == IF Truthy(v) THEN v ELSE d

\* a default parameter value: used when the argument is undefined
DefaultParam(v, d) == IF v.t = "undefined" THEN d ELSE v

\* args?.key
OptGet(args, key) ==
  IF args.t \in {"undefined", "null"} THEN Undefined
  ELSE IF args.t = "object" /\ key \in DOMAIN args.o THEN args.o[key]
  ELSE Undefined

\* v.length
LengthOf(v) ==
  CASE v.t = "string" -> Num(Len(v.s))
    [] v.t = "array"  -> Num(Len(v.a))
    [] v.t = "object" -> IF "length" \in DOMAIN v.o THEN v.o["length"] ELSE Undefined
    [] OTHER          -> Undefined

\* a variant that is off by one
LessThanOffByOne(v, k) == v.t = "number" /\ v.n < k - 1

\* x < k for a number k: undefined converts to NaN and compares false
LessThan(v, k) == v.t = "number" /\ v.n < k

\* -------------------------------------------------- completions and errors

Error(message) == [t |-> "Error", message |-> message]
TypeError(message) == [t |-> "Error", message |-> message]

Ok(value)    == [thrown |-> FALSE, value |-> value]
Throw(error) == [thrown |-> TRUE, error |-> error]

\* ToString of a value, as a template literal `${v}` or String(v) applies it.
\* A JSON object carrying its own "toString" key has a non-callable toString,
\* and Object.prototype.valueOf returns the object: the conversion throws.
RECURSIVE ToStringJS(_)
ToStringJS(v) ==
  CASE v.t = "string"    -> Ok(v.s)
    [] v.t = "number"    -> Ok(<<ToString(v.n)>>)
    [] v.t = "undefined" -> Ok(<<"undefined">>)
    [] v.t = "null"      -> Ok(<<"null">>)
    [] v.t = "array"     ->
         LET parts == [i \in 1..Len(v.a) |->
                         IF v.a[i].t \in {"undefined", "null"} THEN Ok(<<>>)
                         ELSE ToStringJS(v.a[i])]
         IN IF \E i \in 1..Len(parts) : parts[i].thrown
            THEN Throw(TypeError(<<"Cannot convert object to primitive value">>))
            ELSE Ok(Flatten([i \in 1..Len(parts) |->
                      (IF i > 1 THEN <<",">> ELSE <<>>) \o parts[i].value]))
    [] v.t = "object"    ->
         IF "toString" \in DOMAIN v.o
         THEN Throw(TypeError(<<"Cannot convert object to primitive value">>))
         ELSE Ok(<<"[object Object]">>)
    [] v.t = "Error"     -> Ok(<<"Error: ">> \o v.message)

\* a template literal: the parts (literal fragments and interpolated values)
\* converted and concatenated left to right
Template(parts) ==
  LET conv == [i \in 1..Len(parts) |-> ToStringJS(parts[i])] IN
  IF \E i \in 1..Len(conv) : conv[i].thrown
  THEN Throw(conv[CHOOSE i \in 1..Len(conv) :
                    conv[i].thrown /\ \A j \in 1..(i - 1) : ~conv[j].thrown].error)
  ELSE Ok(Flatten([i \in 1..Len(conv) |-> conv[i].value]))

\* ------------------------------------------------------- utility functions

ErrorMarker   == "[X] Error: "    \* stands for the cross-mark emoji and " Error: "
SuccessMarker == "[OK] "          \* stands for the check-mark emoji and a space

\* a variant that leaves the marker out
formatErrorUnmarked(error) ==
  IF error.t = "Error"
  THEN <<"Error: ">> \o error.message
  ELSE <<"Error: ">> \o ToStringJS(error).value

formatError(error) ==
  IF error.t = "Error"
  THEN <<ErrorMarker>> \o error.message
  ELSE <<ErrorMarker>> \o ToStringJS(error).value

NotAFunction(what) == TypeError(<<what, " is not a function">>)

\* calling method m on v when v has no such method
NoMethod(v, what, m) ==
  IF v.t \in {"undefined", "null"}
  THEN TypeError(<<"Cannot read properties of ", v.t, " (reading '", m, "')">>)
  ELSE NotAFunction(what)

validateRequired(value, name) ==
  IF ~Truthy(value) THEN Throw(Error(<<name, " is required">>))
  ELSE IF value.t # "string" THEN Throw(NotAFunction("value.trim"))
  ELSE IF Trim(value.s) = <<>> THEN Throw(Error(<<name, " is required">>))
  ELSE Ok(Str(Trim(value.s)))

DataScheme   == <<"d", "a", "t", "a", ":">>
Base64Marker == <<";", "b", "a", "s", "e", "6", "4", ",">>

\* text.replace(/^data:[^;]+;base64,/, "")
StripDataUrlPrefix(s) ==
  IF ~StartsWith(s, DataScheme) THEN s
  ELSE LET rest == SubSeq(s, Len(DataScheme) + 1, Len(s))
           semi == FirstIndex(rest, ";")
       IN IF semi >= 2 /\ StartsWith(SubSeq(rest, semi, Len(rest)), Base64Marker)
          THEN SubSeq(rest, semi + Len(Base64Marker), Len(rest))
          ELSE s

base64ToBuffer(base64) ==
  IF base64.t # "string" THEN Throw(NoMethod(base64, "base64.replace", "replace"))
  ELSE Ok(Base64Decode(StripDataUrlPrefix(base64.s)))

MimePdf == <<"a","p","p","l","i","c","a","t","i","o","n","/","p","d","f">>
MimeZip == <<"a","p","p","l","i","c","a","t","i","o","n","/","z","i","p">>

\* a variant that ignores the media type it is given
bufferToBase64DataUrlPdfOnly(buffer, mimeType) ==
  DataScheme \o MimePdf \o Base64Marker \o Base64Encode(buffer)

\* mimeType defaults to "application/pdf"
bufferToBase64DataUrl(buffer, mimeType) ==
  DataScheme \o DefaultParam(mimeType, Str(MimePdf)).s \o Base64Marker
    \o Base64Encode(buffer)

\* ------------------------------------------------- statements of a try block
\* A handler's try block is a list of statements run in order against the
\* FormData under construction; the first statement that throws ends the run.

SValidate(value, name)        == [op |-> "validate", value |-> value, name |-> name]
SAtLeast(list, min, message)  == [op |-> "atLeast", list |-> list, min |-> min, message |-> message]
SFile(field, payload, filename) == [op |-> "file", field |-> field, payload |-> payload, filename |-> filename]
SFiles(field, list)           == [op |-> "files", field |-> field, list |-> list]
SImages(field, list)          == [op |-> "images", field |-> field, list |-> list]
SField(name, value)           == [op |-> "field", name |-> name, value |-> value]
SLanguages(languages)         == [op |-> "languages", languages |-> languages]
SCall(endpoint)               == [op |-> "call", endpoint |-> endpoint]

\* formData.append(name, buffer, filename) and formData.append(name, text)
FilePart(name, data, filename) == [kind |-> "file", name |-> name, data |-> data, filename |-> filename]
TextPart(name, value)          == [kind |-> "text", name |-> name, value |-> value]

Done(form, events)         == [thrown |-> FALSE, form |-> form, events |-> events]
Failed(error, form, events) == [thrown |-> TRUE, error |-> error, form |-> form, events |-> events]

WordChars == {Alphabet[i] : i \in 1..62} \cup {"_"}

ImageScheme == DataScheme \o <<"i", "m", "a", "g", "e", "/">>

\* base64Image.match(/^data:image\/(\w+);/): the extension, "png" without a match
RECURSIVE WordRun(_)
WordRun(s) ==
  IF s # <<>> /\ Head(s) \in WordChars THEN <<Head(s)>> \o WordRun(Tail(s)) ELSE <<>>

ImageExt(s) ==
  IF ~StartsWith(s, ImageScheme) THEN <<"png">>
  ELSE LET rest == SubSeq(s, Len(ImageScheme) + 1, Len(s))
           run  == WordRun(rest)
       IN IF run # <<>> /\ Len(rest) > Len(run) /\ rest[Len(run) + 1] = ";"
          THEN run ELSE <<"png">>

\* a variant that attaches the files last to first
RECURSIVE AppendPdfsReversed(_, _, _, _, _)
AppendPdfsReversed(field, list, index, form, events) ==
  IF index > Len(list) THEN Done(form, events)
  ELSE LET buffer == base64ToBuffer(list[Len(list) - index + 1]) IN
       IF buffer.thrown THEN Failed(buffer.error, form, events)
       ELSE AppendPdfsReversed(field, list, index + 1,
              Append(form, FilePart(field, buffer.value,
                                    <<"file", ToString(index), ".pdf">>)),
              events \o <<"decode", "append">>)

\* pdfFiles.forEach((base64Pdf, index) => { decode; append as file<index+1>.pdf })
RECURSIVE AppendPdfs(_, _, _, _, _)
AppendPdfs(field, list, index, form, events) ==
  IF index > Len(list) THEN Done(form, events)
  ELSE LET buffer == base64ToBuffer(list[index]) IN
       IF buffer.thrown THEN Failed(buffer.error, form, events)
       ELSE AppendPdfs(field, list, index + 1,
              Append(form, FilePart(field, buffer.value,
                                    <<"file", ToString(index), ".pdf">>)),
              events \o <<"decode", "append">>)

\* imageFiles.forEach((base64Image, index) => { decode; detect ext; append })
RECURSIVE AppendImages(_, _, _, _, _)
AppendImages(field, list, index, form, events) ==
  IF index > Len(list) THEN Done(form, events)
  ELSE LET buffer == base64ToBuffer(list[index]) IN
       IF buffer.thrown THEN Failed(buffer.error, form, events)
       ELSE AppendImages(field, list, index + 1,
              Append(form, FilePart(field, buffer.value,
                       <<"image", ToString(index), ".">> \o ImageExt(list[index].s))),
              events \o <<"decode", "append">>)

\* a variant that sends the elements as split, untrimmed
AppendLanguagesUntrimmed(languages, form, events) ==
  IF languages.t # "string"
  THEN Failed(NoMethod(languages, "languages.split", "split"), form, events)
  ELSE LET langArray == Split(languages.s, ",")
       IN Done(form \o [i \in 1..Len(langArray) |-> TextPart("languages", langArray[i])],
               events \o [i \in 1..Len(langArray) |-> "append"])

\* languages.split(",").map(l => l.trim()).forEach(lang => append("languages", lang))
AppendLanguages(languages, form, events) ==
  IF languages.t # "string"
  THEN Failed(NoMethod(languages, "languages.split", "split"), form, events)
  ELSE LET langArray == [i \in 1..Len(Split(languages.s, ",")) |->
                           Trim(Split(languages.s, ",")[i])]
       IN Done(form \o [i \in 1..Len(langArray) |-> TextPart("languages", langArray[i])],
               events \o [i \in 1..Len(langArray) |-> "append"])

\* one statement
Step(stmt, form, events) ==
  CASE stmt.op = "validate" ->
         LET v == validateRequired(stmt.value, stmt.name) IN
         IF v.thrown THEN Failed(v.error, form, events \o <<"validate">>)
         ELSE Done(form, events \o <<"validate">>)
    [] stmt.op = "atLeast" ->
         IF ~Truthy(stmt.list) \/ LessThan(LengthOf(stmt.list), stmt.min)
         THEN Failed(Error(<<stmt.message>>), form, events \o <<"validate">>)
         ELSE Done(form, events \o <<"validate">>)
    [] stmt.op = "file" ->
         LET buffer == base64ToBuffer(stmt.payload) IN
         IF buffer.thrown THEN Failed(buffer.error, form, events)
         ELSE Done(Append(form, FilePart(stmt.field, buffer.value, stmt.filename)),
                   events \o <<"decode", "append">>)
    [] stmt.op = "files" ->
         IF stmt.list.t # "array"
         THEN Failed(NotAFunction("pdfFiles.forEach"), form, events)
         ELSE AppendPdfs(stmt.field, stmt.list.a, 1, form, events)
    [] stmt.op = "images" ->
         IF stmt.list.t # "array"
         THEN Failed(NotAFunction("imageFiles.forEach"), form, events)
         ELSE AppendImages(stmt.field, stmt.list.a, 1, form, events)
    [] stmt.op = "field" ->
         Done(Append(form, TextPart(stmt.name, stmt.value.s)), events \o <<"append">>)
    [] stmt.op = "languages" ->
         AppendLanguages(stmt.languages, form, events)

\* the statements up to the network call: either one throws (caught by the
\* handler's catch) or the call is reached with the assembled form
RECURSIVE RunTry(_, _, _)

\* a variant that runs the rest whatever the statement did
RunRestIgnoringThrow(stmts, r) == RunTry(stmts, r.form, r.events)

\* after one statement ended as r: its exception is caught, or the rest runs
RunRest(stmts, r) ==
  IF r.thrown
  THEN [k |-> "caught", error |-> r.error, form |-> r.form, events |-> r.events]
  ELSE RunTry(stmts, r.form, r.events)

RunTry(stmts, form, events) ==
  IF Head(stmts).op = "call"
  THEN [k |-> "call", endpoint |-> Head(stmts).endpoint, form |-> form,
        events |-> events \o <<"call">>]
  ELSE RunRest(Tail(stmts), Step(Head(stmts), form, events))

\* ---------------------------------------------------------------- handlers
\* The common shape of the ten tool functions: a logger.info line built from
\* a template BEFORE the try block, the try block up to the awaited call, and
\* after the call the data URL of the result in a success template.  What
\* the try block throws is caught, logged and returned as formatError text;
\* what the first log line throws leaves the function.

InfoLine(text)       == <<"[INFO]">> \o text
ErrorLine(fn, error) == <<"[ERROR]", "Error in ", fn, ":">> \o ToStringJS(error).value

\* the handler once its try block ran as r, up to the await: the catch's
\* failure text, or the handler suspended at the network call
HandlerTry(fn, log, r, mimeType, successParts) ==
  IF r.k = "caught"
  THEN [k |-> "returned", text |-> formatError(r.error),
        events |-> r.events \o <<"return">>,
        logs |-> <<InfoLine(log), ErrorLine(fn, r.error)>>]
  ELSE [k |-> "awaiting", fn |-> fn, endpoint |-> r.endpoint, form |-> r.form,
        mimeType |-> mimeType, successParts |-> successParts,
        events |-> r.events,
        logs |-> <<InfoLine(log),
                   InfoLine(<<"Calling Stirling PDF API: ", r.endpoint>>)>>]

Handler(fn, logParts, body, mimeType, successParts) ==
  LET log == Template(logParts) IN
  IF log.thrown
  THEN [k |-> "threw", error |-> log.error, events |-> <<>>, logs |-> <<>>]
  ELSE HandlerTry(fn, log.value, RunTry(body, <<>>, <<>>), mimeType, successParts)

PageIcon    == "[page] "      \* stands for the page emoji and a space
PackageIcon == "[package] "   \* stands for the package emoji and a space
DegreeSign  == "[deg]"        \* stands for the degree sign

\* reading .length of undefined or null throws (the parameter default and the
\* dispatcher's || [] keep both away from the two list handlers)
LengthThrows(v) ==
  [k |-> "threw",
   error |-> TypeError(<<"Cannot read properties of ", v.t, " (reading 'length')">>),
   events |-> <<>>, logs |-> <<>>]

mergePDFs(pdfFiles0, sortType0) ==
  LET pdfFiles == DefaultParam(pdfFiles0, Arr(<<>>))
      sortType == DefaultParam(sortType0, Lit("orderProvided"))
  IN IF pdfFiles.t \in {"undefined", "null"} THEN LengthThrows(pdfFiles) ELSE
     Handler("mergePDFs",
       <<Lit("Merging "), LengthOf(pdfFiles), Lit(" PDF files")>>,
       << SAtLeast(pdfFiles, 2, "At least 2 PDF files are required for merging"),
          SFiles("fileInput", pdfFiles),
          SField("sortType", sortType),
          SCall("/api/v1/general/merge-pdfs") >>,
       Undefined,
       <<Lit(SuccessMarker), Lit("Successfully merged "), LengthOf(pdfFiles),
         Lit(" PDF files\n\n"), Lit(PageIcon), Lit("Result (base64 data URL):\n")>>)

\* a variant whose first log line prints the payload it was given
splitPDFLoggingFile(pdfFile0, pageNumbers0) ==
  LET pdfFile     == DefaultParam(pdfFile0, Str(<<>>))
      pageNumbers == DefaultParam(pageNumbers0, Str(<<>>))
  IN Handler("splitPDF",
       <<Lit("Splitting PDF "), pdfFile, Lit(" at pages: "), pageNumbers>>,
       << SValidate(pdfFile, "pdfFile"),
          SValidate(pageNumbers, "pageNumbers"),
          SFile("fileInput", pdfFile, <<"input.pdf">>),
          SField("pageNumbers", pageNumbers),
          SCall("/api/v1/general/split-pages") >>,
       Str(MimeZip),
       <<Lit(SuccessMarker), Lit("Successfully split PDF at pages: "), pageNumbers,
         Lit("\n\n"), Lit(PackageIcon), Lit("Result (ZIP file as base64 data URL):\n")>>)

splitPDF(pdfFile0, pageNumbers0) ==
  LET pdfFile     == DefaultParam(pdfFile0, Str(<<>>))
      pageNumbers == DefaultParam(pageNumbers0, Str(<<>>))
  IN Handler("splitPDF",
       <<Lit("Splitting PDF at pages: "), pageNumbers>>,
       << SValidate(pdfFile, "pdfFile"),
          SValidate(pageNumbers, "pageNumbers"),
          SFile("fileInput", pdfFile, <<"input.pdf">>),
          SField("pageNumbers", pageNumbers),
          SCall("/api/v1/general/split-pages") >>,
       Str(MimeZip),
       <<Lit(SuccessMarker), Lit("Successfully split PDF at pages: "), pageNumbers,
         Lit("\n\n"), Lit(PackageIcon), Lit("Result (ZIP file as base64 data URL):\n")>>)

\* a variant that sends level 2 whatever level it was given
compressPDFFixedLevel(pdfFile0, optimizeLevel0) ==
  LET pdfFile       == DefaultParam(pdfFile0, Str(<<>>))
      optimizeLevel == DefaultParam(optimizeLevel0, Lit("2"))
  IN Handler("compressPDF",
       <<Lit("Compressing PDF with optimization level: "), optimizeLevel>>,
       << SValidate(pdfFile, "pdfFile"),
          SFile("fileInput", pdfFile, <<"input.pdf">>),
          SField("optimizeLevel", Lit("2")),
          SField("fastWebView", Lit("false")),
          SCall("/api/v1/misc/compress-pdf") >>,
       Undefined,
       <<Lit(SuccessMarker), Lit("Successfully compressed PDF (optimization level: "),
         optimizeLevel, Lit(")\n\n"), Lit(PageIcon), Lit("Result (base64 data URL):\n")>>)

compressPDF(pdfFile0, optimizeLevel0) ==
  LET pdfFile       == DefaultParam(pdfFile0, Str(<<>>))
      optimizeLevel == DefaultParam(optimizeLevel0, Lit("2"))
  IN Handler("compressPDF",
       <<Lit("Compressing PDF with optimization level: "), optimizeLevel>>,
       << SValidate(pdfFile, "pdfFile"),
          SFile("fileInput", pdfFile, <<"input.pdf">>),
          SField("optimizeLevel", optimizeLevel),
          SField("fastWebView", Lit("false")),
          SCall("/api/v1/misc/compress-pdf") >>,
       Undefined,
       <<Lit(SuccessMarker), Lit("Successfully compressed PDF (optimization level: "),
         optimizeLevel, Lit(")\n\n"), Lit(PageIcon), Lit("Result (base64 data URL):\n")>>)

convertPDFToImages(pdfFile0, imageFormat0, dpi0) ==
  LET pdfFile     == DefaultParam(pdfFile0, Str(<<>>))
      imageFormat == DefaultParam(imageFormat0, Lit("png"))
      dpi         == DefaultParam(dpi0, Lit("300"))
  IN Handler("convertPDFToImages",
       <<Lit("Converting PDF to "), imageFormat, Lit(" images at "), dpi, Lit(" DPI")>>,
       << SValidate(pdfFile, "pdfFile"),
          SFile("fileInput", pdfFile, <<"input.pdf">>),
          SField("imageFormat", imageFormat),
          SField("dpi", dpi),
          SField("colorType", Lit("color")),
          SField("singleOrMultiple", Lit("multiple")),
          SCall("/api/v1/convert/pdf/img") >>,
       Str(MimeZip),
       <<Lit(SuccessMarker), Lit("Successfully converted PDF to "), imageFormat,
         Lit(" images\n\n"), Lit(PackageIcon),
         Lit("Result (ZIP file as base64 data URL):\n")>>)

rotatePDF(pdfFile0, angle0, pageNumbers0) ==
  LET pdfFile     == DefaultParam(pdfFile0, Str(<<>>))
      angle       == DefaultParam(angle0, Lit("90"))
      pageNumbers == DefaultParam(pageNumbers0, Lit("all"))
  IN Handler("rotatePDF",
       <<Lit("Rotating PDF pages by "), angle, Lit(" degrees")>>,
       << SValidate(pdfFile, "pdfFile"),
          SFile("fileInput", pdfFile, <<"input.pdf">>),
          SField("angle", angle),
          SField("pageNumbers", pageNumbers),
          SCall("/api/v1/general/rotate-pdf") >>,
       Undefined,
       <<Lit(SuccessMarker), Lit("Successfully rotated PDF pages by "), angle,
         Lit(DegreeSign), Lit("\n\n"), Lit(PageIcon), Lit("Result (base64 data URL):\n")>>)

addWatermark(pdfFile0, watermarkText0, fontSize0, opacity0, rotation0) ==
  LET pdfFile       == DefaultParam(pdfFile0, Str(<<>>))
      watermarkText == DefaultParam(watermarkText0, Str(<<>>))
      fontSize      == DefaultParam(fontSize0, Lit("30"))
      opacity       == DefaultParam(opacity0, Lit("0.5"))
      rotation      == DefaultParam(rotation0, Lit("45"))
  IN Handler("addWatermark",
       <<Lit("Adding watermark to PDF: \""), watermarkText, Lit("\"")>>,
       << SValidate(pdfFile, "pdfFile"),
          SValidate(watermarkText, "watermarkText"),
          SFile("fileInput", pdfFile, <<"input.pdf">>),
          SField("watermarkType", Lit("text")),
          SField("watermarkText", watermarkText),
          SField("alphabet", Lit("roman")),
          SField("fontSize", fontSize),
          SField("rotation", rotation),
          SField("opacity", opacity),
          SField("widthSpacer", Lit("50")),
          SField("heightSpacer", Lit("50")),
          SField("customColor", Lit("#000000")),
          SCall("/api/v1/security/add-watermark") >>,
       Undefined,
       <<Lit(SuccessMarker), Lit("Successfully added watermark: \""), watermarkText,
         Lit("\"\n\n"), Lit(PageIcon), Lit("Result (base64 data URL):\n")>>)

removePages(pdfFile0, pagesToRemove0) ==
  LET pdfFile       == DefaultParam(pdfFile0, Str(<<>>))
      pagesToRemove == DefaultParam(pagesToRemove0, Str(<<>>))
  IN Handler("removePages",
       <<Lit("Removing pages from PDF: "), pagesToRemove>>,
       << SValidate(pdfFile, "pdfFile"),
          SValidate(pagesToRemove, "pagesToRemove"),
          SFile("fileInput", pdfFile, <<"input.pdf">>),
          SField("pagesToDelete", pagesToRemove),
          SCall("/api/v1/general/remove-pages") >>,
       Undefined,
       <<Lit(SuccessMarker), Lit("Successfully removed pages: "), pagesToRemove,
         Lit("\n\n"), Lit(PageIcon), Lit("Result (base64 data URL):\n")>>)

extractImages(pdfFile0, format0) ==
  LET pdfFile == DefaultParam(pdfFile0, Str(<<>>))
      format  == DefaultParam(format0, Lit("png"))
  IN Handler("extractImages",
       <<Lit("Extracting images from PDF in "), format, Lit(" format")>>,
       << SValidate(pdfFile, "pdfFile"),
          SFile("fileInput", pdfFile, <<"input.pdf">>),
          SField("format", format),
          SCall("/api/v1/general/extract-images") >>,
       Str(MimeZip),
       <<Lit(SuccessMarker), Lit("Successfully extracted images from PDF\n\n"),
         Lit(PackageIcon), Lit("Result (ZIP file as base64 data URL):\n")>>)

convertImagesToPDF(imageFiles0, fitOption0, colorType0) ==
  LET imageFiles == DefaultParam(imageFiles0, Arr(<<>>))
      fitOption  == DefaultParam(fitOption0, Lit("fillPage"))
      colorType  == DefaultParam(colorType0, Lit("color"))
  IN IF imageFiles.t \in {"undefined", "null"} THEN LengthThrows(imageFiles) ELSE
     Handler("convertImagesToPDF",
       <<Lit("Converting "), LengthOf(imageFiles), Lit(" images to PDF")>>,
       << SAtLeast(imageFiles, 1, "At least 1 image file is required"),
          SImages("fileInput", imageFiles),
          SField("fitOption", fitOption),
          SField("colorType", colorType),
          SField("autoRotate", Lit("false")),
          SCall("/api/v1/convert/img/pdf") >>,
       Undefined,
       <<Lit(SuccessMarker), Lit("Successfully converted "), LengthOf(imageFiles),
         Lit(" images to PDF\n\n"), Lit(PageIcon), Lit("Result (base64 data URL):\n")>>)

ocrPDF(pdfFile0, languages0, sidecar0, deskew0, clean0, cleanFinal0, ocrType0) ==
  LET pdfFile    == DefaultParam(pdfFile0, Str(<<>>))
      languages  == DefaultParam(languages0, Lit("eng"))
      sidecar    == DefaultParam(sidecar0, Lit("false"))
      deskew     == DefaultParam(deskew0, Lit("false"))
      clean      == DefaultParam(clean0, Lit("false"))
      cleanFinal == DefaultParam(cleanFinal0, Lit("false"))
      ocrType    == DefaultParam(ocrType0, Lit("skip-text"))
  IN Handler("ocrPDF",
       <<Lit("Performing OCR on PDF with languages: "), languages>>,
       << SValidate(pdfFile, "pdfFile"),
          SFile("fileInput", pdfFile, <<"input.pdf">>),
          SLanguages(languages),
          SField("sidecar", sidecar),
          SField("deskew", deskew),
          SField("clean", clean),
          SField("cleanFinal", cleanFinal),
          SField("ocrType", ocrType),
          SCall("/api/v1/misc/ocr-pdf") >>,
       Undefined,
       <<Lit(SuccessMarker), Lit("Successfully performed OCR on PDF\nLanguages: "),
         languages, Lit("\n\n"), Lit(PageIcon), Lit("Result (base64 data URL):\n")>>)

\* ------------------------------------------------------------ the process

VARIABLES
  proc,      \* "starting", "running" or "exited": main() and the transport
  exitCode,  \* the status the process exited with, -1 while it runs
  env,       \* the two environment variables read once at startup
  pc,        \* per invocation: "idle", "awaiting" (the HTTP call) or "done"
  call,      \* the tool call request being served: name and arguments
  handler,   \* the handler: suspended at its await, or as it ended
  request,   \* the HTTP request axios.post was given
  elapsed,   \* milliseconds since the request was issued
  outcome,   \* how axios.post settled
  envelope,  \* the CallTool response
  netCalls,  \* axios.post calls issued for the invocation
  threw,     \* whether the handler raised into the dispatcher
  listed,    \* the last answer to a ListTools request, if any
  codec      \* the codec exercised on its own: a buffer encoded, then decoded

procVars == <<proc, exitCode, env, listed>>
slotVars == <<pc, call, handler, request, elapsed, outcome, envelope, netCalls, threw>>
vars == <<proc, exitCode, env, listed, pc, call, handler, request, elapsed, outcome,
          envelope, netCalls, threw, codec>>

None == [k |-> "none"]

\* process.env.X || default
DefaultUrl == <<"http://localhost:8080">>
STIRLING_PDF_URL     == OrElse(env.STIRLING_PDF_URL, Str(DefaultUrl)).s
STIRLING_PDF_API_KEY == OrElse(env.STIRLING_PDF_API_KEY, Str(<<>>)).s

TIMEOUT_MS == 120000

\* ------------------------------------------------------ API gateway client

\* a variant that sets the credential header whether or not one is configured
callStirlingAPIAlwaysKey(endpoint, formData) ==
  [method  |-> "POST",
   url     |-> STIRLING_PDF_URL \o <<endpoint>>,
   headers |-> {<<"content-type", <<"multipart/form-data">> >>,
                <<"X-API-KEY", STIRLING_PDF_API_KEY>>},
   data    |-> formData,
   timeout |-> TIMEOUT_MS]

\* a variant that posts every request to one path
callStirlingAPIFixedPath(endpoint, formData) ==
  [method  |-> "POST",
   url     |-> STIRLING_PDF_URL \o <<"/api/v1/general/merge-pdfs">>,
   headers |-> {<<"content-type", <<"multipart/form-data">> >>}
                 \cup (IF STIRLING_PDF_API_KEY # <<>>
                       THEN {<<"X-API-KEY", STIRLING_PDF_API_KEY>>} ELSE {}),
   data    |-> formData,
   timeout |-> TIMEOUT_MS]

\* callStirlingAPI up to its await: the request handed to axios.post
callStirlingAPI(endpoint, formData) ==
  [method  |-> "POST",
   url     |-> STIRLING_PDF_URL \o <<endpoint>>,
   headers |-> {<<"content-type", <<"multipart/form-data">> >>}
                 \cup (IF STIRLING_PDF_API_KEY # <<>>
                       THEN {<<"X-API-KEY", STIRLING_PDF_API_KEY>>} ELSE {}),
   data    |-> formData,
   timeout |-> TIMEOUT_MS]

\* Buffer.toString("utf-8") of the bytes the model's upstream sends
Utf8Char(b) ==
  CASE b = 98  -> "b"
    [] b = 111 -> "o"
    [] b = 109 -> "m"
    [] b = 123 -> "{"
    [] b = 125 -> "}"
    [] b = 48  -> "0"
    [] OTHER   -> "\\uFFFD"

Utf8ToString(bytes) == [i \in 1..Len(bytes) |-> Utf8Char(bytes[i])]

\* axios resolves a response whose status is 2xx and rejects every other one
\* with an AxiosError carrying the response
ValidateStatus(status) == status >= 200 /\ status < 300

\* how axios.post settles for what the upstream did: a 2xx response resolves,
\* any other response rejects with an AxiosError that carries it, a transport
\* failure rejects with an AxiosError without response
AxiosSettle(reply) ==
  CASE reply.k = "response" /\ ValidateStatus(reply.status) ->
         [k |-> "resolved", response |-> reply]
    [] reply.k = "response" /\ ~ValidateStatus(reply.status) ->
         [k |-> "axiosError", response |-> reply,
          message |-> <<"Request failed with status code ", ToString(reply.status)>>]
    [] reply.k = "transport" ->
         [k |-> "axiosError", response |-> None, message |-> reply.message]
    [] reply.k = "other" ->
         [k |-> "error", message |-> reply.message]

\* a variant of the catch that reports the status text only
callStirlingAPIResumeStatusOnly(settled) ==
  CASE settled.k = "resolved" -> Ok(settled.response.data)
    [] settled.k = "axiosError" ->
         LET response   == settled.response
             status     == IF response.k = "none" THEN Lit("unknown")
                           ELSE OrElse(Num(response.status), Lit("unknown"))
             statusText == IF response.k = "none" THEN Lit("Unknown Error")
                           ELSE OrElse(Str(response.statusText), Lit("Unknown Error"))
         IN Throw(Error(Template(<<Lit("Stirling PDF API returned "), status,
                                   Lit(": "), statusText>>).value))
    [] settled.k = "error" -> Throw(Error(settled.message))

\* callStirlingAPI from the await on: the result buffer, or the error thrown
callStirlingAPIResume(settled) ==
  CASE settled.k = "resolved" -> Ok(settled.response.data)
    [] settled.k = "axiosError" ->
         LET response   == settled.response
             status     == IF response.k = "none" THEN Lit("unknown")
                           ELSE OrElse(Num(response.status), Lit("unknown"))
             statusText == IF response.k = "none" THEN Lit("Unknown Error")
                           ELSE OrElse(Str(response.statusText), Lit("Unknown Error"))
             errorData  == IF response.k = "none" THEN Str(<<>>)
                           ELSE Str(Utf8ToString(response.data))
         IN Throw(Error(Template(<<Lit("Stirling PDF API returned "), status,
                                   Lit(": "), OrElse(errorData, statusText)>>).value))
    [] settled.k = "error" -> Throw(Error(settled.message))

\* the handler from its await on: the success text with the result's data
\* URL, or the caught failure as text
HandlerResume(h, settled) ==
  LET resultBuffer == callStirlingAPIResume(settled) IN
  IF resultBuffer.thrown
  THEN [k |-> "returned", text |-> formatError(resultBuffer.error),
        events |-> h.events \o <<"return">>,
        logs |-> h.logs \o <<ErrorLine(h.fn, resultBuffer.error)>>]
  ELSE LET resultBase64 == bufferToBase64DataUrl(resultBuffer.value, h.mimeType)
           summary == Template(h.successParts)
       IN IF summary.thrown
          THEN [k |-> "returned", text |-> formatError(summary.error),
                events |-> h.events \o <<"encode", "return">>,
                logs |-> h.logs \o <<ErrorLine(h.fn, summary.error)>>]
          ELSE [k |-> "returned", text |-> summary.value \o resultBase64,
                events |-> h.events \o <<"encode", "return">>,
                logs |-> h.logs]

\* ----------------------------------------------------------- tool catalog

Boolean == {"true", "false"}
ImageFormats == {"png", "jpg", "gif"}
NoEnums == <<>>

\* a tool descriptor: its name and, of its inputSchema, the required fields
\* and the enumerated value sets of the properties that declare one
Tool(name, required, enum) == [name |-> name, required |-> required, enum |-> enum]

TOOLS ==
  << Tool("merge_pdfs", {"pdfFiles"},
       [sortType |-> {"orderProvided", "alphabetical", "reverseAlphabetical"}]),
     Tool("split_pdf", {"pdfFile", "pageNumbers"}, NoEnums),
     Tool("compress_pdf", {"pdfFile"}, [optimizeLevel |-> {"0", "1", "2", "3"}]),
     Tool("convert_pdf_to_images", {"pdfFile"}, [imageFormat |-> ImageFormats]),
     Tool("rotate_pdf", {"pdfFile"}, [angle |-> {"90", "180", "270"}]),
     Tool("add_watermark", {"pdfFile", "watermarkText"}, NoEnums),
     Tool("remove_pages", {"pdfFile", "pagesToRemove"}, NoEnums),
     Tool("extract_images", {"pdfFile"}, [format |-> ImageFormats]),
     Tool("convert_images_to_pdf", {"imageFiles"},
       [fitOption |-> {"fillPage", "fitDocumentToImage", "maintainAspectRatio"},
        colorType |-> {"color", "greyscale", "blackwhite"}]),
     Tool("ocr_pdf", {"pdfFile"},
       [sidecar |-> Boolean, deskew |-> Boolean, clean |-> Boolean,
        cleanFinal |-> Boolean, ocrType |-> {"skip-text", "force-ocr", "Normal"}]) >>

\* a variant of the listing that leaves the first tool out
ListToolsResultShort == [tools |-> Tail(TOOLS)]

\* the ListTools request handler
ListToolsResult == [tools |-> TOOLS]

\* ------------------------------------------------------------- dispatcher

TextContent(text) == <<[type |-> "text", text |-> text]>>

\* the switch of the CallTool handler: the handler's outcome for a known
\* name, the Error of the default branch otherwise
Dispatch(name, args) ==
  CASE name = "merge_pdfs" ->
         mergePDFs(OrElse(OptGet(args, "pdfFiles"), Arr(<<>>)),
                   OrElse(OptGet(args, "sortType"), Lit("orderProvided")))
    [] name = "split_pdf" ->
         splitPDF(OrElse(OptGet(args, "pdfFile"), Str(<<>>)),
                  OrElse(OptGet(args, "pageNumbers"), Str(<<>>)))
    [] name = "compress_pdf" ->
         compressPDF(OrElse(OptGet(args, "pdfFile"), Str(<<>>)),
                     OrElse(OptGet(args, "optimizeLevel"), Lit("2")))
    [] name = "convert_pdf_to_images" ->
         convertPDFToImages(OrElse(OptGet(args, "pdfFile"), Str(<<>>)),
                            OrElse(OptGet(args, "imageFormat"), Lit("png")),
                            OrElse(OptGet(args, "dpi"), Lit("300")))
    [] name = "rotate_pdf" ->
         rotatePDF(OrElse(OptGet(args, "pdfFile"), Str(<<>>)),
                   OrElse(OptGet(args, "angle"), Lit("90")),
                   OrElse(OptGet(args, "pageNumbers"), Lit("all")))
    [] name = "add_watermark" ->
         addWatermark(OrElse(OptGet(args, "pdfFile"), Str(<<>>)),
                      OrElse(OptGet(args, "watermarkText"), Str(<<>>)),
                      OrElse(OptGet(args, "fontSize"), Lit("30")),
                      OrElse(OptGet(args, "opacity"), Lit("0.5")),
                      OrElse(OptGet(args, "rotation"), Lit("45")))
    [] name = "remove_pages" ->
         removePages(OrElse(OptGet(args, "pdfFile"), Str(<<>>)),
                     OrElse(OptGet(args, "pagesToRemove"), Str(<<>>)))
    [] name = "extract_images" ->
         extractImages(OrElse(OptGet(args, "pdfFile"), Str(<<>>)),
                       OrElse(OptGet(args, "format"), Lit("png")))
    [] name = "convert_images_to_pdf" ->
         convertImagesToPDF(OrElse(OptGet(args, "imageFiles"), Arr(<<>>)),
                            OrElse(OptGet(args, "fitOption"), Lit("fillPage")),
                            OrElse(OptGet(args, "colorType"), Lit("color")))
    [] name = "ocr_pdf" ->
         ocrPDF(OrElse(OptGet(args, "pdfFile"), Str(<<>>)),
                OrElse(OptGet(args, "languages"), Lit("eng")),
                OrElse(OptGet(args, "sidecar"), Lit("false")),
                OrElse(OptGet(args, "deskew"), Lit("false")),
                OrElse(OptGet(args, "clean"), Lit("false")),
                OrElse(OptGet(args, "cleanFinal"), Lit("false")),
                OrElse(OptGet(args, "ocrType"), Lit("skip-text")))
    [] OTHER ->
         [k |-> "unknown", error |-> Error(<<"Unknown tool: ", name>>),
          events |-> <<>>, logs |-> <<>>]

\* a variant that flags the envelope of a failure text
ReturnEnvelopeFlagging(text) ==
  IF text # <<>> /\ text[1] = ErrorMarker
  THEN [content |-> TextContent(text), isError |-> TRUE]
  ELSE [content |-> TextContent(text)]

\* the response when the handler returned its text
ReturnEnvelope(text) == [content |-> TextContent(text)]

\* a variant of the catch that does not flag the envelope
CatchEnvelopeUnflagged(error) == [content |-> TextContent(formatError(error))]

\* the response of the dispatcher's catch
CatchEnvelope(error) == [content |-> TextContent(formatError(error)), isError |-> TRUE]

\* ------------------------------------------------------------------ inputs
\* The tool calls the model issues.  Arguments are JSON values: besides
\* strings and lists of strings, the values a client can send in their place.

\* {"toString": 1}: an object that cannot be converted to text
Poison == Obj([toString |-> Num(1)])
\* {"length": {"toString": 1}}
PoisonLength == Obj([length |-> Poison])

PdfABC    == <<"Q", "U", "J", "D">>
PdfUrl    == DataScheme \o MimePdf \o Base64Marker \o <<"Q", "Q", "=", "=">>
NotBase64 == <<"!", "?">>
JpgUrl    == ImageScheme \o <<"j", "p", "g">> \o Base64Marker \o <<"/", "w", "=", "=">>

PdfFileVals ==
  {Undefined, Null, Str(<<>>), Str(<<" ", "\t">>), Str(PdfABC), Str(PdfUrl),
   Str(NotBase64), Num(5), Poison}

RequiredTextVals ==
  {Undefined, Str(<<" ">>), Str(<<"1", ",", "3">>), Str(<<" ", "2", " ">>),
   Num(7), Poison}

ListVals(payloads) ==
  {Arr(a) : a \in SeqsUpTo(payloads, MaxFiles)}
    \cup {Undefined, Null, Str(PdfABC), Num(5), PoisonLength,
          Arr(<<Str(PdfABC), Num(5)>>), Arr(<<Null, Str(PdfABC)>>)}

LanguageVals ==
  {Undefined, Lit("eng"),
   Str(<<"e","n","g",","," ","s","p","a">>),
   Str(<<" ","e","n","g"," ",",",",","d","e","u","\t">>),
   Str(<<" ">>), Num(3), Poison}

\* an optional argument that the handler's first log line prints
Logged(valid, invalid) == {Undefined, Str(<<>>), Lit(valid), Lit(invalid), Poison}
\* an optional argument that only reaches formData.append
Plain(valid, invalid) == {Undefined, Str(<<>>), Lit(valid), Lit(invalid)}

WatermarkOptions ==
  {<<Undefined, Undefined, Undefined>>,
   <<Lit("12"), Undefined, Undefined>>,
   <<Undefined, Lit("0.9"), Undefined>>,
   <<Undefined, Undefined, Lit("0")>>,
   <<Lit("huge"), Lit("2"), Lit("-45")>>}

OcrOptions ==
  {<<Undefined, Undefined, Undefined, Undefined, Undefined>>,
   <<Lit("true"), Undefined, Undefined, Undefined, Undefined>>,
   <<Undefined, Lit("true"), Undefined, Undefined, Undefined>>,
   <<Undefined, Undefined, Lit("true"), Undefined, Undefined>>,
   <<Undefined, Undefined, Undefined, Lit("true"), Undefined>>,
   <<Undefined, Undefined, Undefined, Undefined, Lit("force-ocr")>>,
   <<Lit("yes"), Lit("false"), Str(<<>>), Lit("1"), Lit("fast")>>}

UnknownNames == {"delete_pdf", "merge_pdf", ""}

ToolCalls ==
  {[name |-> "merge_pdfs", args |-> Obj([pdfFiles |-> f, sortType |-> o])] :
      f \in ListVals({Str(PdfABC), Str(PdfUrl)}),
      o \in Plain("alphabetical", "bySize")}
  \cup
  {[name |-> "split_pdf", args |-> Obj([pdfFile |-> f, pageNumbers |-> p])] :
      f \in PdfFileVals, p \in RequiredTextVals}
  \cup
  {[name |-> "compress_pdf", args |-> Obj([pdfFile |-> f, optimizeLevel |-> o])] :
      f \in PdfFileVals, o \in Logged("3", "9")}
  \cup
  {[name |-> "convert_pdf_to_images",
    args |-> Obj([pdfFile |-> f, imageFormat |-> o, dpi |-> d])] :
      f \in PdfFileVals, o \in Logged("jpg", "bmp"), d \in {Undefined, Lit("150")}}
  \cup
  {[name |-> "rotate_pdf", args |-> Obj([pdfFile |-> f, angle |-> o, pageNumbers |-> p])] :
      f \in PdfFileVals, o \in Logged("180", "45"), p \in {Undefined, Lit("1,3")}}
  \cup
  {[name |-> "add_watermark",
    args |-> Obj([pdfFile |-> f, watermarkText |-> w, fontSize |-> o[1],
                  opacity |-> o[2], rotation |-> o[3]])] :
      f \in PdfFileVals, w \in RequiredTextVals, o \in WatermarkOptions}
  \cup
  {[name |-> "remove_pages", args |-> Obj([pdfFile |-> f, pagesToRemove |-> p])] :
      f \in PdfFileVals, p \in RequiredTextVals}
  \cup
  {[name |-> "extract_images", args |-> Obj([pdfFile |-> f, format |-> o])] :
      f \in PdfFileVals, o \in Logged("gif", "tiff")}
  \cup
  {[name |-> "convert_images_to_pdf",
    args |-> Obj([imageFiles |-> f, fitOption |-> o, colorType |-> c])] :
      f \in ListVals({Str(JpgUrl), Str(PdfABC)}),
      o \in {Undefined, Lit("maintainAspectRatio")},
      c \in {Undefined, Lit("sepia")}}
  \cup
  {[name |-> "ocr_pdf",
    args |-> Obj([pdfFile |-> f, languages |-> l, sidecar |-> o[1], deskew |-> o[2],
                  clean |-> o[3], cleanFinal |-> o[4], ocrType |-> o[5]])] :
      f \in PdfFileVals, l \in LanguageVals, o \in OcrOptions}
  \cup
  {[name |-> n, args |-> a] :
      n \in UnknownNames \cup {"merge_pdfs", "split_pdf", "ocr_pdf"},
      a \in {Undefined, Obj([pdfFile |-> Str(PdfABC)])}}

\* what the upstream (or the network) does with a request
OkBodies    == {<<>>, <<37, 80>>, <<80, 75, 3, 4>>}
ErrorBodies == {<<>>, <<98, 111, 111, 109>>, <<123, 255, 125>>}

Replies ==
  {[k |-> "response", status |-> 200, statusText |-> <<"OK">>, data |-> d] :
       d \in OkBodies}
  \cup
  {[k |-> "response", status |-> st, statusText |-> tx, data |-> d] :
       st \in {404, 500}, tx \in {<<>>, <<"Server Error">>}, d \in ErrorBodies}

TransportFailures ==
  {[k |-> "transport", message |-> <<"connect ECONNREFUSED 127.0.0.1:8080">>],
   [k |-> "transport", message |-> <<"getaddrinfo ENOTFOUND stirling">>],
   [k |-> "other", message |-> <<"socket hang up">>]}

TimeoutFailure ==
  [k |-> "transport", message |-> <<"timeout of ", ToString(TIMEOUT_MS), "ms exceeded">>]

Environments ==
  {[STIRLING_PDF_URL |-> Undefined, STIRLING_PDF_API_KEY |-> Undefined],
   [STIRLING_PDF_URL |-> Str(<<>>), STIRLING_PDF_API_KEY |-> Str(<<>>)],
   [STIRLING_PDF_URL |-> Lit("http://stirling:8080"),
    STIRLING_PDF_API_KEY |-> Lit("s3cret")]}

\* ---------------------------------------------------------------- log lines
\* What the process writes to stderr besides the handlers' own lines.

WarnLine(text) == <<"[WARN]">> \o text

\* the dispatcher's catch: logger.error(`Error executing tool ${name}:`, error)
DispatcherLine(name, error) ==
  <<"[ERROR]", "Error executing tool ", name, ":">> \o ToStringJS(error).value

\* the lines of main() when the transport connects, for the configured base
\* address and credential
mainLog(url, key) ==
  << InfoLine(<<"Starting Stirling PDF MCP server...">>),
     IF url = <<>>
     THEN WarnLine(<<"STIRLING_PDF_URL not set, using default: http://localhost:8080">>)
     ELSE InfoLine(<<"Stirling PDF URL: ">> \o url),
     IF key = <<>>
     THEN WarnLine(<<"STIRLING_PDF_API_KEY not set - API calls may fail if authentication is required">>)
     ELSE InfoLine(<<"STIRLING_PDF_API_KEY is configured">>),
     InfoLine(<<"[OK] ", "Stirling PDF MCP server running on stdio">>),
     InfoLine(<<"Ready to process PDF operations">>) >>

\* the lines of one invocation that ran as h up to its await and whose
\* request, if any, settled as settled
RunLog(name, h, settled) ==
  CASE h.k = "awaiting"  -> IF settled = None THEN h.logs
                            ELSE HandlerResume(h, settled).logs
    [] h.k = "returned"  -> h.logs
    [] OTHER             -> <<DispatcherLine(name, h.error)>>

\* ------------------------------------------------------------------ actions

Slots == DOMAIN pc

IdleSlot(s) ==
  /\ pc' = [pc EXCEPT ![s] = "idle"]
  /\ call' = [call EXCEPT ![s] = None]
  /\ handler' = [handler EXCEPT ![s] = None]
  /\ request' = [request EXCEPT ![s] = None]
  /\ elapsed' = [elapsed EXCEPT ![s] = 0]
  /\ outcome' = [outcome EXCEPT ![s] = None]
  /\ envelope' = [envelope EXCEPT ![s] = None]
  /\ netCalls' = [netCalls EXCEPT ![s] = 0]
  /\ threw' = [threw EXCEPT ![s] = FALSE]

InitSlots(slots) ==
  /\ pc = [s \in slots |-> "idle"]
  /\ call = [s \in slots |-> None]
  /\ handler = [s \in slots |-> None]
  /\ request = [s \in slots |-> None]
  /\ elapsed = [s \in slots |-> 0]
  /\ outcome = [s \in slots |-> None]
  /\ envelope = [s \in slots |-> None]
  /\ netCalls = [s \in slots |-> 0]
  /\ threw = [s \in slots |-> FALSE]

Init ==
  /\ proc = "starting"
  /\ exitCode = -1
  /\ env \in Environments
  /\ listed = None
  /\ InitSlots({1})
  /\ codec = None

\* main(): server.connect succeeds and the server runs
Startup ==
  /\ proc = "starting"
  /\ proc' = "running"
  /\ UNCHANGED <<exitCode, env, listed, slotVars, codec>>

\* main(): server.connect rejects; main().catch logs and calls process.exit(1)
StartupFails ==
  /\ proc = "starting"
  /\ proc' = "exited"
  /\ exitCode' = 1
  /\ UNCHANGED <<env, listed, slotVars, codec>>

\* a ListTools request is answered
ListTools ==
  /\ proc = "running"
  /\ listed' = ListToolsResult
  /\ UNCHANGED <<proc, exitCode, env, slotVars, codec>>

\* the parts already appended by the requests in flight in the other slots
SharedFormData(s) ==
  LET others == {t \in Slots \ {s} : request[t] # None}
  IN IF others = {} THEN <<>> ELSE request[CHOOSE t \in others : TRUE].data

\* a variant with one module-level FormData that every invocation appends to
InvokeFromSharedForm(s, calls) ==
  /\ proc = "running"
  /\ pc[s] = "idle"
  /\ \E c \in calls : \E h \in {Dispatch(c.name, c.args)} :
       /\ call' = [call EXCEPT ![s] = c]
       /\ handler' = [handler EXCEPT ![s] = h]
       /\ elapsed' = [elapsed EXCEPT ![s] = 0]
       /\ outcome' = [outcome EXCEPT ![s] = None]
       /\ CASE h.k = "awaiting" ->
                 /\ pc' = [pc EXCEPT ![s] = "awaiting"]
                 /\ request' = [request EXCEPT ![s] =
                      callStirlingAPI(h.endpoint, SharedFormData(s) \o h.form)]
                 /\ netCalls' = [netCalls EXCEPT ![s] = netCalls[s] + 1]
                 /\ envelope' = [envelope EXCEPT ![s] = None]
                 /\ threw' = [threw EXCEPT ![s] = FALSE]
            [] h.k = "returned" ->
                 /\ pc' = [pc EXCEPT ![s] = "done"]
                 /\ envelope' = [envelope EXCEPT ![s] = ReturnEnvelope(h.text)]
                 /\ threw' = [threw EXCEPT ![s] = FALSE]
                 /\ UNCHANGED <<request, netCalls>>
            [] h.k = "threw" ->
                 /\ pc' = [pc EXCEPT ![s] = "done"]
                 /\ envelope' = [envelope EXCEPT ![s] = CatchEnvelope(h.error)]
                 /\ threw' = [threw EXCEPT ![s] = TRUE]
                 /\ UNCHANGED <<request, netCalls>>
            [] h.k = "unknown" ->
                 /\ pc' = [pc EXCEPT ![s] = "done"]
                 /\ envelope' = [envelope EXCEPT ![s] = CatchEnvelope(h.error)]
                 /\ threw' = [threw EXCEPT ![s] = FALSE]
                 /\ UNCHANGED <<request, netCalls>>
  /\ UNCHANGED <<procVars, codec>>

\* The CallTool request handler up to the first await that suspends it: the
\* switch, the argument defaults, the handler's synchronous part.  Either the
\* invocation is over (the handler returned a failure text, or something was
\* thrown into the dispatcher's catch) or the HTTP request is in flight.
\* The call is one of calls.
InvokeFrom(s, calls) ==
  /\ proc = "running"
  /\ pc[s] = "idle"
  /\ \E c \in calls : \E h \in {Dispatch(c.name, c.args)} :
       /\ call' = [call EXCEPT ![s] = c]
       /\ handler' = [handler EXCEPT ![s] = h]
       /\ elapsed' = [elapsed EXCEPT ![s] = 0]
       /\ outcome' = [outcome EXCEPT ![s] = None]
       /\ CASE h.k = "awaiting" ->
                 /\ pc' = [pc EXCEPT ![s] = "awaiting"]
                 /\ request' = [request EXCEPT ![s] = callStirlingAPI(h.endpoint, h.form)]
                 /\ netCalls' = [netCalls EXCEPT ![s] = netCalls[s] + 1]
                 /\ envelope' = [envelope EXCEPT ![s] = None]
                 /\ threw' = [threw EXCEPT ![s] = FALSE]
            [] h.k = "returned" ->
                 /\ pc' = [pc EXCEPT ![s] = "done"]
                 /\ envelope' = [envelope EXCEPT ![s] = ReturnEnvelope(h.text)]
                 /\ threw' = [threw EXCEPT ![s] = FALSE]
                 /\ UNCHANGED <<request, netCalls>>
            [] h.k = "threw" ->
                 /\ pc' = [pc EXCEPT ![s] = "done"]
                 /\ envelope' = [envelope EXCEPT ![s] = CatchEnvelope(h.error)]
                 /\ threw' = [threw EXCEPT ![s] = TRUE]
                 /\ UNCHANGED <<request, netCalls>>
            [] h.k = "unknown" ->
                 /\ pc' = [pc EXCEPT ![s] = "done"]
                 /\ envelope' = [envelope EXCEPT ![s] = CatchEnvelope(h.error)]
                 /\ threw' = [threw EXCEPT ![s] = FALSE]
                 /\ UNCHANGED <<request, netCalls>>
  /\ UNCHANGED <<procVars, codec>>

\* a CallTool request arrives with any of the modelled calls
Invoke(s) == InvokeFrom(s, ToolCalls)

\* a variant that sends the request once more after a failed call
SettleRetrying(s, reply) ==
  IF AxiosSettle(reply).k # "resolved" /\ netCalls[s] < 2
  THEN /\ netCalls' = [netCalls EXCEPT ![s] = netCalls[s] + 1]
       /\ elapsed' = [elapsed EXCEPT ![s] = 0]
       /\ UNCHANGED <<procVars, pc, call, handler, request, outcome, envelope,
                      threw, codec>>
  ELSE \E h \in {HandlerResume(handler[s], AxiosSettle(reply))} :
         /\ pc' = [pc EXCEPT ![s] = "done"]
         /\ outcome' = [outcome EXCEPT ![s] = AxiosSettle(reply)]
         /\ handler' = [handler EXCEPT ![s] = h]
         /\ envelope' = [envelope EXCEPT ![s] = ReturnEnvelope(h.text)]
         /\ UNCHANGED <<procVars, call, request, elapsed, netCalls, threw, codec>>

\* axios.post settles; callStirlingAPI and the handler run on to the return,
\* and the dispatcher wraps the returned text
Settle(s, reply) ==
  \E h \in {HandlerResume(handler[s], AxiosSettle(reply))} :
     /\ pc' = [pc EXCEPT ![s] = "done"]
     /\ outcome' = [outcome EXCEPT ![s] = AxiosSettle(reply)]
     /\ handler' = [handler EXCEPT ![s] = h]
     /\ envelope' = [envelope EXCEPT ![s] = ReturnEnvelope(h.text)]
     /\ UNCHANGED <<procVars, call, request, elapsed, netCalls, threw, codec>>

\* the upstream answers before the timeout
Respond(s) ==
  /\ pc[s] = "awaiting"
  /\ elapsed[s] < request[s].timeout
  /\ \E reply \in Replies : Settle(s, reply)

\* the connection fails before the timeout
TransportFails(s) ==
  /\ pc[s] = "awaiting"
  /\ elapsed[s] < request[s].timeout
  /\ \E reply \in TransportFailures : Settle(s, reply)

\* time passes while the request is in flight
Tick(s) ==
  /\ pc[s] = "awaiting"
  /\ elapsed[s] < request[s].timeout
  /\ elapsed' = [elapsed EXCEPT ![s] = elapsed[s] + (TIMEOUT_MS \div TicksPerTimeout)]
  /\ UNCHANGED <<procVars, pc, call, handler, request, outcome, envelope,
                 netCalls, threw, codec>>

\* a request sent without a timeout: nothing aborts it
TimeoutNever(s) ==
  /\ pc[s] = "awaiting"
  /\ FALSE
  /\ Settle(s, TimeoutFailure)

\* the request's timeout elapsed without an answer: axios aborts and rejects
Timeout(s) ==
  /\ pc[s] = "awaiting"
  /\ elapsed[s] >= request[s].timeout
  /\ Settle(s, TimeoutFailure)

\* a variant without the dispatcher's catch: what a handler threw ends the
\* process like a failure of main()
FinishRethrowing(s) ==
  /\ pc[s] = "done"
  /\ IdleSlot(s)
  /\ IF threw[s]
     THEN proc' = "exited" /\ exitCode' = 1 /\ UNCHANGED <<env, listed, codec>>
     ELSE UNCHANGED <<procVars, codec>>

\* the response was sent; the next tool call can be served
Finish(s) ==
  /\ pc[s] = "done"
  /\ IdleSlot(s)
  /\ UNCHANGED <<procVars, codec>>

Next ==
  \/ Startup
  \/ StartupFails
  \/ ListTools
  \/ \E s \in Slots : Invoke(s)
  \/ \E s \in Slots : Respond(s)
  \/ \E s \in Slots : TransportFails(s)
  \/ \E s \in Slots : Tick(s)
  \/ \E s \in Slots : Timeout(s)
  \/ \E s \in Slots : Finish(s)

Spec == Init /\ [][Next]_vars

\* with the fairness of the event loop: time passes while a request is in
\* flight, and a timer that is due fires
LiveSpec ==
  Spec /\ \A s \in {1} : WF_vars(Tick(s)) /\ WF_vars(Timeout(s))

\* ------------------------------------------- invocations that overlap
\* The SDK starts the CallTool handler of every request as it arrives, so a
\* second invocation can run while the first one awaits its HTTP response.
\* Each invocation in flight has a slot; the calls are a few of ToolCalls,
\* and time is left out (a request is answered or its connection fails).

MaxInFlight == 2

ConcurrentCalls ==
  {[name |-> "merge_pdfs",
    args |-> Obj([pdfFiles |-> Arr(<<Str(PdfABC), Str(PdfUrl)>>), sortType |-> Undefined])],
   [name |-> "split_pdf",
    args |-> Obj([pdfFile |-> Str(PdfABC), pageNumbers |-> Str(<<"1", ",", "3">>)])],
   [name |-> "split_pdf",
    args |-> Obj([pdfFile |-> Str(PdfUrl), pageNumbers |-> Undefined])],
   [name |-> "compress_pdf",
    args |-> Obj([pdfFile |-> Str(PdfABC), optimizeLevel |-> Poison])],
   [name |-> "delete_pdf", args |-> Undefined]}

ConcInit ==
  /\ proc = "starting"
  /\ exitCode = -1
  /\ env \in Environments
  /\ listed = None
  /\ InitSlots(1..MaxInFlight)
  /\ codec = None

ConcNext ==
  \/ Startup
  \/ StartupFails
  \/ \E s \in Slots : InvokeFrom(s, ConcurrentCalls)
  \/ \E s \in Slots : Respond(s)
  \/ \E s \in Slots : TransportFails(s)
  \/ \E s \in Slots : Finish(s)

ConcSpec == ConcInit /\ [][ConcNext]_vars

\* --------------------------------------------------- the codec on its own

MimePng  == <<"i", "m", "a", "g", "e", "/", "p", "n", "g">>
MimeText == <<"t","e","x","t","/","p","l","a","i","n",";",
              "c","h","a","r","s","e","t","=","u","t","f","-","8">>

CodecMimeTypes == {Undefined, Str(MimeZip), Str(MimePng), Str(MimeText)}
CodecBytes     == {0, 65, 255}

CodecInit ==
  /\ proc = "starting"
  /\ exitCode = -1
  /\ env = [STIRLING_PDF_URL |-> Undefined, STIRLING_PDF_API_KEY |-> Undefined]
  /\ listed = None
  /\ InitSlots({})
  /\ codec \in {[pc |-> "buffer", buffer |-> b, mimeType |-> m,
                 dataUrl |-> <<>>, decoded |-> <<>>] :
                  b \in SeqsUpTo(CodecBytes, MaxBufferLen), m \in CodecMimeTypes}

CodecEncode ==
  /\ codec.pc = "buffer"
  /\ codec' = [codec EXCEPT !.pc = "encoded",
                 !.dataUrl = bufferToBase64DataUrl(codec.buffer, codec.mimeType)]
  /\ UNCHANGED <<procVars, slotVars>>

CodecDecode ==
  /\ codec.pc = "encoded"
  /\ codec' = [codec EXCEPT !.pc = "decoded",
                 !.decoded = base64ToBuffer(Str(codec.dataUrl)).value]
  /\ UNCHANGED <<procVars, slotVars>>

CodecNext == CodecEncode \/ CodecDecode

CodecSpec == CodecInit /\ [][CodecNext]_vars

\* ------------------------------------------------------------------ claims

\* the names of the tool catalog
ToolNames == {TOOLS[i].name : i \in 1..Len(TOOLS)}

ResultText(s)  == envelope[s].content[1].text
IsErrorFlag(s) == "isError" \in DOMAIN envelope[s] /\ envelope[s].isError
ArgOf(s, key)  == OptGet(call[s].args, key)

IsFailureText(text) == text # <<>> /\ text[1] = ErrorMarker
IsSuccessText(text) == text # <<>> /\ text[1] = SuccessMarker

IsFilePart(p) == p.kind = "file"
FileParts(form) == SelectSeq(form, IsFilePart)

\* absent, empty or whitespace-only
Blank(v) == v.t = "undefined" \/ (v.t = "string" /\ Trim(v.s) = <<>>)
\* a string that is not empty after trimming
NonBlankText(v) == v.t = "string" /\ Trim(v.s) # <<>>
\* a list of strings
IsFileList(v) == v.t = "array" /\ \A i \in 1..Len(v.a) : v.a[i].t = "string"

\* the required textual arguments of each handler, in the order it checks them
RequiredText(name) ==
  CASE name = "split_pdf"     -> <<"pdfFile", "pageNumbers">>
    [] name = "add_watermark" -> <<"pdfFile", "watermarkText">>
    [] name = "remove_pages"  -> <<"pdfFile", "pagesToRemove">>
    [] name \in {"compress_pdf", "convert_pdf_to_images", "rotate_pdf",
                 "extract_images", "ocr_pdf"} -> <<"pdfFile">>
    [] OTHER -> <<>>

\* C1: an invocation whose required textual argument is absent, empty or
\* whitespace-only (the arguments checked before it being in order) ends with
\* a failure text containing "<field> is required" and without a network
\* call; and a network call is issued only when every required textual
\* argument is a string that is non-empty after trimming.
C1_RequiredArgumentNamed ==
  \A s \in Slots :
    LET fields == RequiredText(call[s].name) IN
    /\ pc[s] = "done" =>
         \A i \in 1..Len(fields) :
           (/\ Blank(ArgOf(s, fields[i]))
            /\ \A j \in 1..(i - 1) : NonBlankText(ArgOf(s, fields[j])))
           => /\ netCalls[s] = 0
              /\ Contains(ResultText(s), <<fields[i], " is required">>)
    /\ pc[s] # "idle" /\ netCalls[s] > 0 =>
         \A i \in 1..Len(fields) : NonBlankText(ArgOf(s, fields[i]))

\* C2: merge_pdfs with fewer than 2 files (absent, empty list, one file) ends
\* with the cardinality failure text and no network call; with a list of
\* n >= 2 files it issues exactly one network call whose body carries exactly
\* n binary parts, part i holding the bytes of file i.
C2_MergeCardinality ==
  \A s \in Slots :
    (pc[s] # "idle" /\ call[s].name = "merge_pdfs") =>
      LET files == ArgOf(s, "pdfFiles") IN
      /\ (files.t = "undefined" \/ (IsFileList(files) /\ Len(files.a) < 2)) =>
           /\ pc[s] = "done"
           /\ netCalls[s] = 0
           /\ IsFailureText(ResultText(s))
           /\ Contains(ResultText(s), <<"At least 2 PDF files are required for merging">>)
      /\ (IsFileList(files) /\ Len(files.a) >= 2) =>
           /\ netCalls[s] = 1
           /\ Len(FileParts(request[s].data)) = Len(files.a)
           /\ \A i \in 1..Len(files.a) :
                /\ FileParts(request[s].data)[i].name = "fileInput"
                /\ FileParts(request[s].data)[i].data
                     = Base64Decode(StripDataUrlPrefix(files.a[i].s))

C2_Witness ==
  \E s \in Slots :
    /\ pc[s] = "done" /\ call[s].name = "merge_pdfs" /\ netCalls[s] = 1
    /\ IsFileList(ArgOf(s, "pdfFiles"))
    /\ Len(ArgOf(s, "pdfFiles").a) = 3
    /\ ArgOf(s, "pdfFiles").a[1] # ArgOf(s, "pdfFiles").a[2]
    /\ FileParts(request[s].data)[1].data # FileParts(request[s].data)[2].data

\* C3: convert_images_to_pdf with no image (absent or empty list) ends with
\* the cardinality failure text and no network call; with exactly one image
\* it issues exactly one network call with exactly one binary part, and a 2xx
\* answer gives a success text.
C3_ImagesCardinality ==
  \A s \in Slots :
    (pc[s] # "idle" /\ call[s].name = "convert_images_to_pdf") =>
      LET files == ArgOf(s, "imageFiles") IN
      /\ (files.t = "undefined" \/ (IsFileList(files) /\ Len(files.a) = 0)) =>
           /\ pc[s] = "done"
           /\ netCalls[s] = 0
           /\ IsFailureText(ResultText(s))
           /\ Contains(ResultText(s), <<"At least 1 image file is required">>)
      /\ (IsFileList(files) /\ Len(files.a) = 1) =>
           /\ netCalls[s] = 1
           /\ Len(FileParts(request[s].data)) = 1
           /\ (pc[s] = "done" /\ outcome[s].k = "resolved") =>
                (IsSuccessText(ResultText(s)) /\ ~IsErrorFlag(s))

C3_Witness ==
  \E s \in Slots :
    /\ pc[s] = "done" /\ call[s].name = "convert_images_to_pdf"
    /\ IsFileList(ArgOf(s, "imageFiles")) /\ Len(ArgOf(s, "imageFiles").a) = 1
    /\ outcome[s].k = "resolved" /\ netCalls[s] = 1
    /\ IsSuccessText(ResultText(s))

\* C4: when the upstream answers a call with a non-2xx status and a
\* non-empty body, the handler returns (nothing is thrown into the
\* dispatcher) a failure text containing the status and the body text.
C4_UpstreamErrorReported ==
  \A s \in Slots :
    (/\ pc[s] = "done"
     /\ outcome[s].k = "axiosError"
     /\ outcome[s].response.k = "response"
     /\ outcome[s].response.data # <<>>)
    => /\ ~threw[s]
       /\ ~IsErrorFlag(s)
       /\ IsFailureText(ResultText(s))
       /\ Contains(ResultText(s), <<ToString(outcome[s].response.status)>>)
       /\ Contains(ResultText(s), Utf8ToString(outcome[s].response.data))

C4_Witness ==
  \E s \in Slots :
    /\ pc[s] = "done"
    /\ outcome[s].k = "axiosError"
    /\ outcome[s].response.k = "response"
    /\ outcome[s].response.status = 500
    /\ outcome[s].response.data = <<98, 111, 111, 109>>
    /\ Contains(ResultText(s), <<"500">>)
    /\ Contains(ResultText(s), <<"b", "o", "o", "m">>)

\* C5: a call the upstream never answers does not stay pending: the request
\* times out once 120000 ms have passed, not before, and the invocation ends
\* with a failure text.
C5_TimeoutCompletes ==
  /\ \A s \in {1} : (pc[s] = "awaiting") ~> (pc[s] = "done")
  /\ [](\A s \in {1} :
          (pc[s] = "done" /\ outcome[s] = AxiosSettle(TimeoutFailure)) =>
             /\ elapsed[s] >= 120000
             /\ IsFailureText(ResultText(s)))

C5_Witness ==
  \E s \in Slots :
    /\ pc[s] = "done" /\ netCalls[s] = 1
    /\ outcome[s] = AxiosSettle(TimeoutFailure)
    /\ elapsed[s] >= 120000
    /\ IsFailureText(ResultText(s))

\* C6: a tool call whose name is not one of the ten registered names is
\* answered with isError = true and a text containing the name, without a
\* network call.
C6_UnknownTool ==
  \A s \in Slots :
    (pc[s] # "idle" /\ call[s].name \notin ToolNames) =>
      /\ pc[s] = "done"
      /\ IsErrorFlag(s)
      /\ Contains(ResultText(s), <<call[s].name>>)
      /\ netCalls[s] = 0
      /\ request[s] = None

C6_Witness ==
  \E s \in Slots :
    /\ pc[s] = "done" /\ call[s].name = "delete_pdf"
    /\ IsErrorFlag(s)
    /\ Contains(ResultText(s), <<"Unknown tool: ", "delete_pdf">>)

ArchiveTools == {"split_pdf", "extract_images", "convert_pdf_to_images"}

ExpectedMime(name) == IF name \in ArchiveTools THEN MimeZip ELSE MimePdf

\* C8: on success the result is encoded with application/zip by split_pdf,
\* extract_images and convert_pdf_to_images and with application/pdf by the
\* other seven handlers, whatever the arguments and the response.
C8_MediaTypeByOperation ==
  \A s \in Slots :
    (pc[s] = "done" /\ outcome[s].k = "resolved") =>
      LET text == ResultText(s)
          url  == DataScheme \o ExpectedMime(call[s].name) \o Base64Marker
                    \o Base64Encode(outcome[s].response.data)
      IN /\ IsSuccessText(text)
         /\ Len(text) > Len(url)
         /\ SubSeq(text, Len(text) - Len(url) + 1, Len(text)) = url
         /\ ~Contains(SubSeq(text, 1, Len(text) - Len(url)), DataScheme)

C8_Witness ==
  \E s \in Slots :
    /\ pc[s] = "done" /\ outcome[s].k = "resolved"
    /\ call[s].name = "extract_images"
    /\ outcome[s].response.data # <<>>
    /\ Contains(ResultText(s), DataScheme \o MimeZip \o Base64Marker)

\* the text parts named "languages" of a request body, in order
IsLanguagePart(p) == p.kind = "text" /\ p.name = "languages"
LanguageValues(form) ==
  [i \in 1..Len(SelectSeq(form, IsLanguagePart)) |->
     SelectSeq(form, IsLanguagePart)[i].value]

IsComma(c)      == c = ","
NotWhitespace(c) == c \notin Whitespace
CommaCount(s)   == Len(SelectSeq(s, IsComma))

\* the values joined by commas
RECURSIVE JoinComma(_)
JoinComma(values) ==
  IF values = <<>> THEN <<>>
  ELSE IF Len(values) = 1 THEN values[1]
  ELSE values[1] \o <<",">> \o JoinComma(Tail(values))

\* C9: ocr_pdf sends one "languages" value per element of a non-empty
\* comma-separated languages argument, in order, each without surrounding
\* whitespace and with the characters of its element.
C9_LanguagesSplit ==
  \A s \in Slots :
    (/\ pc[s] # "idle" /\ call[s].name = "ocr_pdf" /\ netCalls[s] > 0
     /\ ArgOf(s, "languages").t = "string" /\ ArgOf(s, "languages").s # <<>>)
    => LET arg    == ArgOf(s, "languages").s
           values == LanguageValues(request[s].data)
       IN /\ Len(values) = CommaCount(arg) + 1
          /\ \A i \in 1..Len(values) :
               /\ values[i] = Trim(values[i])
               /\ ~Contains(values[i], <<",">>)
          /\ SelectSeq(JoinComma(values), NotWhitespace)
               = SelectSeq(arg, NotWhitespace)

C9_Witness ==
  \E s \in Slots :
    /\ pc[s] = "done" /\ call[s].name = "ocr_pdf" /\ netCalls[s] = 1
    /\ ArgOf(s, "languages") = Str(<<"e","n","g",","," ","s","p","a">>)
    /\ LanguageValues(request[s].data) = << <<"e","n","g">>, <<"s","p","a">> >>

\* C10: whatever the arguments, each of the ten handlers ends by returning a
\* text: nothing it raises reaches the dispatcher.
C10_HandlersNeverThrow ==
  \A s \in Slots :
    (pc[s] = "done" /\ call[s].name \in ToolNames) => ~threw[s]

\* the call failed: axios rejected, with or without a response
CallFailed(s) == pc[s] = "done" /\ outcome[s].k \in {"axiosError", "error"}

\* the call failed without an HTTP response: refused, unresolved, timed out
TransportFailed(s) ==
  pc[s] = "done" /\ outcome[s].k = "axiosError" /\ outcome[s].response.k = "none"

\* the upstream answered with a status that is not 2xx
UpstreamFailed(s) ==
  pc[s] = "done" /\ outcome[s].k = "axiosError" /\ outcome[s].response.k = "response"

\* C11: an invocation issues at most one network call, whatever way the call
\* ends, and a failed call is reported as a failure text after that one call.
C11_NoRetry ==
  \A s \in Slots :
    /\ netCalls[s] <= 1
    /\ CallFailed(s) =>
         (netCalls[s] = 1 /\ IsFailureText(ResultText(s)) /\ ~threw[s])

C11_Witness ==
  \E s \in Slots :
    /\ CallFailed(s) /\ netCalls[s] = 1
    /\ outcome[s].k = "axiosError" /\ outcome[s].response.k = "none"
    /\ IsFailureText(ResultText(s))

\* C12: when the call fails without an HTTP response (connection refused,
\* timeout, DNS failure), the failure text the handler returns includes the
\* description of the transport failure.
C12_TransportCauseReported ==
  \A s \in Slots :
    TransportFailed(s) => Contains(ResultText(s), outcome[s].message)

\* the text of the failure callStirlingAPI throws for a non-2xx response
UpstreamMessage(s) == callStirlingAPIResume(outcome[s]).error.message

\* C13 (as stated): the failure for a non-2xx response carries the status
\* code, the status reason and, when there is a body, the body as text.
C13_StatusReasonAndBody ==
  \A s \in Slots :
    UpstreamFailed(s) =>
      /\ Contains(UpstreamMessage(s), <<ToString(outcome[s].response.status)>>)
      /\ outcome[s].response.statusText # <<>> =>
           Contains(UpstreamMessage(s), outcome[s].response.statusText)
      /\ outcome[s].response.data # <<>> =>
           Contains(UpstreamMessage(s), Utf8ToString(outcome[s].response.data))

\* C13 (amended): the failure for a non-2xx response carries the status code
\* and one description: the body as text when there is a body, else the
\* status reason, else "Unknown Error"; the handler's text is that failure.
C13_StatusAndBodyOrReason ==
  \A s \in Slots :
    UpstreamFailed(s) =>
      LET r == outcome[s].response
          description ==
            IF r.data # <<>> THEN Utf8ToString(r.data)
            ELSE IF r.statusText # <<>> THEN r.statusText
            ELSE <<"Unknown Error">>
      IN /\ UpstreamMessage(s)
              = <<"Stirling PDF API returned ", ToString(r.status), ": ">>
                  \o description
         /\ ResultText(s) = <<ErrorMarker>> \o UpstreamMessage(s)

C13_Witness ==
  \E s \in Slots :
    /\ UpstreamFailed(s)
    /\ outcome[s].response.status = 404
    /\ outcome[s].response.statusText = <<"Server Error">>
    /\ outcome[s].response.data = <<>>
    /\ Contains(ResultText(s), <<"404", ": ", "Server Error">>)

\* the handlers whose document is the single pdfFile argument
SingleFileTools ==
  {"split_pdf", "compress_pdf", "convert_pdf_to_images", "rotate_pdf",
   "add_watermark", "remove_pages", "extract_images", "ocr_pdf"}

IsPadding(c) == c = "="
IsStrictBase64Char(c) == \E i \in 1..64 : Alphabet[i] = c

\* canonical base64: groups of four characters of the alphabet, the last
\* group padded with at most two "="
IsValidBase64(s) ==
  LET stop == FirstIndex(s, "=")
      body == IF stop = 0 THEN s ELSE SubSeq(s, 1, stop - 1)
      pad  == IF stop = 0 THEN <<>> ELSE SubSeq(s, stop, Len(s))
  IN /\ Len(s) % 4 = 0
     /\ \A i \in 1..Len(body) : IsStrictBase64Char(body[i])
     /\ \A i \in 1..Len(pad) : IsPadding(pad[i])
     /\ Len(pad) <= 2

\* the argument is a non-blank string that is not base64 once its data-URL
\* prefix is stripped
MalformedPayload(v) ==
  NonBlankText(v) /\ ~IsValidBase64(StripDataUrlPrefix(v.s))

\* C14: an invocation whose payload is not valid base64 after the data-URL
\* prefix is stripped ends with a failure text and issues no network call.
C14_MalformedPayloadRejected ==
  \A s \in Slots :
    (/\ pc[s] # "idle" /\ call[s].name \in SingleFileTools
     /\ MalformedPayload(ArgOf(s, "pdfFile")))
    => /\ netCalls[s] = 0
       /\ pc[s] = "done"
       /\ IsFailureText(ResultText(s))

\* the optional arguments of each tool with their documented defaults
OptionalArgs(name) ==
  CASE name = "merge_pdfs"   -> [sortType |-> "orderProvided"]
    [] name = "compress_pdf" -> [optimizeLevel |-> "2"]
    [] name = "convert_pdf_to_images" -> [imageFormat |-> "png", dpi |-> "300"]
    [] name = "rotate_pdf"   -> [angle |-> "90", pageNumbers |-> "all"]
    [] name = "add_watermark" -> [fontSize |-> "30", opacity |-> "0.5", rotation |-> "45"]
    [] name = "extract_images" -> [format |-> "png"]
    [] name = "convert_images_to_pdf" -> [fitOption |-> "fillPage", colorType |-> "color"]
    [] name = "ocr_pdf" ->
         [sidecar |-> "false", deskew |-> "false", clean |-> "false",
          cleanFinal |-> "false", ocrType |-> "skip-text"]
    [] OTHER -> <<>>

\* the values of the text parts of a request body that carry the given name
FieldValues(form, name) ==
  {form[i].value : i \in {j \in 1..Len(form) :
                            form[j].kind = "text" /\ form[j].name = name}}

\* C15: in every request sent upstream, an optional argument absent from the
\* call is sent with its documented default and an optional argument
\* supplied as a non-empty string is sent as supplied; languages, sent one
\* value per element, is the single value eng when absent.
C15_OptionalDefaults ==
  \A s \in Slots :
    (pc[s] # "idle" /\ netCalls[s] > 0) =>
      LET defaults == OptionalArgs(call[s].name) IN
      /\ \A a \in DOMAIN defaults :
           /\ ArgOf(s, a).t = "undefined" =>
                FieldValues(request[s].data, a) = {<<defaults[a]>>}
           /\ (ArgOf(s, a).t = "string" /\ ArgOf(s, a).s # <<>>) =>
                FieldValues(request[s].data, a) = {ArgOf(s, a).s}
      /\ (call[s].name = "ocr_pdf" /\ ArgOf(s, "languages").t = "undefined") =>
           LanguageValues(request[s].data) = << <<"eng">> >>

C15_Witness ==
  \E s \in Slots :
    /\ pc[s] = "awaiting" /\ call[s].name = "compress_pdf"
    /\ ArgOf(s, "optimizeLevel") = Lit("3")
    /\ FieldValues(request[s].data, "optimizeLevel") = {<<"3">>}

\* the header names of a request
HeaderNames(req) == {h[1] : h \in req.headers}

\* C16: a request carries the X-API-KEY header, with the configured
\* credential, exactly when the configured credential is a non-empty string;
\* the configuration does not change while the process runs.
C16_ApiKeyHeader ==
  /\ [](\A s \in Slots :
          request[s] # None =>
            IF env.STIRLING_PDF_API_KEY.t = "string" /\ env.STIRLING_PDF_API_KEY.s # <<>>
            THEN /\ <<"X-API-KEY", env.STIRLING_PDF_API_KEY.s>> \in request[s].headers
                 /\ Cardinality({h \in request[s].headers : h[1] = "X-API-KEY"}) = 1
            ELSE "X-API-KEY" \notin HeaderNames(request[s]))
  /\ [][env' = env]_vars

C16_Witness ==
  \E s \in Slots :
    /\ request[s] # None
    /\ env.STIRLING_PDF_API_KEY = Lit("s3cret")
    /\ <<"X-API-KEY", <<"s3cret">> >> \in request[s].headers

\* C17: the text a handler returns, a failure text included, is wrapped in
\* an envelope without isError; isError is set exactly when the operation
\* name is unknown or the handler raised.
C17_EnvelopeFlag ==
  \A s \in Slots :
    pc[s] = "done" =>
      /\ IsErrorFlag(s) <=> (call[s].name \notin ToolNames \/ threw[s])
      /\ (call[s].name \in ToolNames /\ ~threw[s]) =>
           /\ handler[s].k = "returned"
           /\ envelope[s] = [content |-> <<[type |-> "text", text |-> handler[s].text]>>]

C17_Witness ==
  \E s \in Slots :
    /\ pc[s] = "done" /\ call[s].name \in ToolNames /\ ~threw[s]
    /\ IsFailureText(ResultText(s))
    /\ TransportFailed(s)
    /\ ~IsErrorFlag(s)

\* the names of a listing, in order
ListedNames(listing) == [i \in 1..Len(listing.tools) |-> listing.tools[i].name]

\* C18: every listing is the same list of ten descriptors with pairwise
\* distinct names, and a tool call is routed to a handler exactly when its
\* name is listed.
C18_CatalogMatchesDispatch ==
  /\ [](listed # None =>
          /\ Len(listed.tools) = 10
          /\ \A i, j \in 1..Len(listed.tools) :
               i # j => listed.tools[i].name # listed.tools[j].name
          /\ \A s \in Slots :
               pc[s] = "done" =>
                 ((\E i \in 1..Len(listed.tools) : listed.tools[i].name = call[s].name)
                    <=> handler[s].k # "unknown"))
  /\ [][listed # None => listed' = listed]_vars

C18_Witness ==
  /\ listed # None
  /\ ListedNames(listed)[10] = "ocr_pdf"
  /\ \E s \in Slots :
       pc[s] = "done" /\ call[s].name = "ocr_pdf" /\ handler[s].k = "returned"

\* the endpoint path documented for each tool
DocumentedPath(name) ==
  CASE name = "merge_pdfs"            -> "/api/v1/general/merge-pdfs"
    [] name = "split_pdf"             -> "/api/v1/general/split-pages"
    [] name = "compress_pdf"          -> "/api/v1/misc/compress-pdf"
    [] name = "convert_pdf_to_images" -> "/api/v1/convert/pdf/img"
    [] name = "rotate_pdf"            -> "/api/v1/general/rotate-pdf"
    [] name = "add_watermark"         -> "/api/v1/misc/add-watermark"
    [] name = "remove_pages"          -> "/api/v1/general/remove-pages"
    [] name = "extract_images"        -> "/api/v1/general/extract-images"
    [] name = "convert_images_to_pdf" -> "/api/v1/convert/img/pdf"
    [] name = "ocr_pdf"               -> "/api/v1/misc/ocr-pdf"

\* the same table with the path add_watermark is sent to
AmendedPath(name) ==
  IF name = "add_watermark" THEN "/api/v1/security/add-watermark"
  ELSE DocumentedPath(name)

\* the base URL the requests are sent to
BaseUrl ==
  IF env.STIRLING_PDF_URL.t = "string" /\ env.STIRLING_PDF_URL.s # <<>>
  THEN env.STIRLING_PDF_URL.s ELSE <<"http://localhost:8080">>

Descriptor(name) == TOOLS[CHOOSE i \in 1..Len(TOOLS) : TOOLS[i].name = name]

\* C20: a request sent upstream carries, for every argument its tool
\* declares with an enumerated value set, only values of that set.
C20_EnumeratedValuesOnly ==
  \A s \in Slots :
    (pc[s] # "idle" /\ netCalls[s] > 0) =>
      \A a \in DOMAIN Descriptor(call[s].name).enum :
        \A v \in FieldValues(request[s].data, a) :
          Len(v) = 1 /\ v[1] \in Descriptor(call[s].name).enum[a]

\* ---------------------------------------------------------------- C21
\* C21: once the transport is connected the process never terminates
\* because of a tool invocation: a running process stays running through
\* every step, whatever an invocation returned or threw, and the exit status
\* is only ever set, to 1, by the failure of startup, before any invocation
\* was served.
C21_NoExitAfterConnect ==
  /\ [][proc = "running" => proc' = "running" /\ exitCode' = exitCode]_vars
  /\ [][exitCode' # exitCode =>
          /\ proc = "starting"
          /\ proc' = "exited"
          /\ exitCode' = 1
          /\ \A s \in Slots : pc[s] = "idle"]_vars
  /\ [](proc = "exited" <=> exitCode # -1)

\* a running process that has just served an invocation whose handler threw
C21_Witness ==
  /\ proc = "running"
  /\ exitCode = -1
  /\ \E s \in Slots : pc[s] = "done" /\ threw[s] /\ IsErrorFlag(s)

\* ---------------------------------------------------------------- C22
\* what slot s holds is what its own call gives when it runs alone, with h
\* the handler's outcome for that call up to the await
AloneMatches(s, h) ==
  /\ IF h.k = "awaiting"
     THEN /\ request[s] = callStirlingAPI(h.endpoint, h.form)
          /\ netCalls[s] = 1
          /\ pc[s] = "awaiting" => handler[s] = h /\ envelope[s] = None
          /\ pc[s] = "done" =>
               \E r \in {HandlerResume(h, outcome[s])} :
                  handler[s] = r /\ envelope[s] = ReturnEnvelope(r.text)
     ELSE /\ request[s] = None
          /\ netCalls[s] = 0
          /\ pc[s] = "done"
          /\ handler[s] = h
          /\ envelope[s] = IF h.k = "returned" THEN ReturnEnvelope(h.text)
                                               ELSE CatchEnvelope(h.error)

SlotState(s) ==
  <<pc[s], call[s], handler[s], request[s], elapsed[s], outcome[s], envelope[s],
    netCalls[s], threw[s]>>

\* C22: invocations that overlap share no mutable state: under every
\* interleaving the request of each invocation is the one built from its own
\* arguments alone and its result is the one it gives when run alone
\* against the same upstream answer, and a step of one invocation changes
\* nothing of another.
C22_Isolation ==
  /\ [](\A s \in Slots : pc[s] # "idle" =>
          \E h \in {Dispatch(call[s].name, call[s].args)} : AloneMatches(s, h))
  /\ [][\A s, t \in Slots :
          s # t /\ SlotState(s)' # SlotState(s) => SlotState(t)' = SlotState(t)]_vars

\* two different requests in flight at once, then one of them answered
\* while the other still waits
C22_Witness ==
  \E s, t \in Slots :
     /\ pc[s] = "done" /\ outcome[s] # None /\ IsSuccessText(ResultText(s))
     /\ pc[t] = "awaiting"
     /\ call[s].name # call[t].name
     /\ request[s].data # request[t].data

\* ---------------------------------------------------------------- C23
\* the lines written for the invocation of slot s so far
InvocationLog(s) ==
  IF handler[s].k \in {"threw", "unknown"}
  THEN <<DispatcherLine(call[s].name, handler[s].error)>>
  ELSE handler[s].logs

\* the argument that carries the file payloads of a tool
PayloadArg(name) ==
  CASE name = "merge_pdfs"            -> "pdfFiles"
    [] name = "convert_images_to_pdf" -> "imageFiles"
    [] OTHER                          -> "pdfFile"

\* the call carries file payloads of the declared type
HasPayloads(c) ==
  /\ c.name \in ToolNames
  /\ IF c.name \in SingleFileTools
     THEN OptGet(c.args, PayloadArg(c.name)).t = "string"
     ELSE IsFileList(OptGet(c.args, PayloadArg(c.name)))

\* the payloads of such a call
PayloadsOf(c) ==
  LET v == OptGet(c.args, PayloadArg(c.name)) IN
  IF v.t = "string" THEN {v.s} ELSE {v.a[i].s : i \in 1..Len(v.a)}

\* the same call with the bytes of every payload replaced by those of p
WithPayload(c, p) ==
  LET key == PayloadArg(c.name)
      v   == c.args.o[key]
      w   == IF v.t = "string" THEN Str(p) ELSE Arr([i \in 1..Len(v.a) |-> Str(p)])
  IN [name |-> c.name,
      args |-> Obj([k \in DOMAIN c.args.o |-> IF k = key THEN w ELSE c.args.o[k]])]

\* the lines of call c run on its own against the upstream answer settled
LogOfRun(c, settled) == RunLog(c.name, Dispatch(c.name, c.args), settled)

OtherKeys     == {<<"s3cret">>, <<"0ther">>, <<"k", "2">>}
OtherPayloads == {PdfABC, PdfUrl, NotBase64, <<"/", "w", "=", "=">>}
BlankPayloads == {<<>>, <<" ", "\t">>}

\* no line of log shows the run of chunks secret
Hidden(log, secret) ==
  secret = <<>> \/ \A i \in 1..Len(log) : ~Contains(log[i], secret)

\* with a configured credential, the lines of main() are the same for every
\* other configured credential and do not show it
KeyNotLogged ==
  STIRLING_PDF_API_KEY # <<>> =>
    /\ \A k \in OtherKeys :
          mainLog(STIRLING_PDF_URL, k) = mainLog(STIRLING_PDF_URL, STIRLING_PDF_API_KEY)
    /\ Hidden(mainLog(STIRLING_PDF_URL, STIRLING_PDF_API_KEY), STIRLING_PDF_API_KEY)
    /\ \A s \in Slots :
          pc[s] # "idle" => Hidden(InvocationLog(s), STIRLING_PDF_API_KEY)

\* the lines of the invocation of slot s are those of the same call with
\* the payload bytes of any of substitutes
SameLogWith(s, substitutes) ==
  \A p \in substitutes :
     LogOfRun(WithPayload(call[s], p), outcome[s]) = InvocationLog(s)

\* C23 as stated: two runs that differ only in the value of the configured
\* credential, or only in the bytes of the input file payloads, write the
\* same log.
C23_LogIdentical ==
  /\ KeyNotLogged
  /\ \A s \in Slots :
        pc[s] # "idle" /\ HasPayloads(call[s]) =>
          SameLogWith(s, OtherPayloads \cup BlankPayloads)

\* C23: neither the credential nor a file payload appears in a log line,
\* and two runs that differ only in the value of the configured credential,
\* or only in the bytes of file payloads that are not blank in either run,
\* write the same log.
C23_SecretsNotLogged ==
  /\ KeyNotLogged
  /\ \A s \in Slots :
        pc[s] # "idle" /\ HasPayloads(call[s]) =>
          /\ \A p \in PayloadsOf(call[s]) : Hidden(InvocationLog(s), p)
          /\ (\A p \in PayloadsOf(call[s]) : Trim(p) # <<>>) =>
                SameLogWith(s, OtherPayloads)

\* with a configured credential sent upstream, an invocation with a payload
\* was answered and its lines were written
C23_Witness ==
  \E s \in Slots :
     /\ pc[s] = "done"
     /\ outcome[s] # None
     /\ <<"X-API-KEY", <<"s3cret">> >> \in request[s].headers
     /\ call[s].name = "split_pdf"
     /\ PayloadsOf(call[s]) = {PdfABC}
     /\ Len(InvocationLog(s)) >= 2
     /\ WithPayload(call[s], PdfUrl) # call[s]

\* ---------------------------------------------------------------- C24
\* the stage a step belongs to: checks, decoding and assembly, the network
\* call, the encoding of the result, the return
Stage(e) ==
  CASE e = "validate" -> 1
    [] e = "decode"   -> 2
    [] e = "append"   -> 2
    [] e = "call"     -> 3
    [] e = "encode"   -> 4
    [] e = "return"   -> 5

Count(events, e) == Cardinality({i \in 1..Len(events) : events[i] = e})

\* the steps are in the order of their stages, every decoded payload is
\* appended at once, and the call, the encoding and the return happen at
\* most once
InStageOrder(events) ==
  /\ \A i \in 1..(Len(events) - 1) : Stage(events[i]) <= Stage(events[i + 1])
  /\ \A i \in 1..Len(events) :
        events[i] = "decode" => i < Len(events) /\ events[i + 1] = "append"
  /\ \A e \in {"call", "encode", "return"} : Count(events, e) <= 1

\* a required textual argument of the call of slot s does not pass its check
SomeRequiredTextFails(s) ==
  \E i \in 1..Len(RequiredText(call[s].name)) :
     ~NonBlankText(ArgOf(s, RequiredText(call[s].name)[i]))

\* C24: within an invocation the steps happen in the order validate,
\* decode, assemble, network call, encode, return: every check is over
\* before a payload is decoded, every decoding and appending before the
\* network call, and a step that fails prevents every later step but the
\* return of the failure text.
C24_StepOrder ==
  \A s \in Slots :
     pc[s] # "idle" /\ handler[s].k \in {"awaiting", "returned"} =>
       \E events \in {handler[s].events} :
          /\ InStageOrder(events)
          /\ Count(events, "call") = netCalls[s]
          /\ pc[s] = "awaiting" => events # <<>> /\ events[Len(events)] = "call"
          /\ pc[s] = "done" => events[Len(events)] = "return"
          /\ Count(events, "encode") = 1 <=>
                outcome[s] # None /\ outcome[s].k = "resolved"
          /\ SomeRequiredTextFails(s) =>
                /\ \A i \in 1..Len(events) : events[i] \in {"validate", "return"}
                /\ Count(events, "validate") <= Len(RequiredText(call[s].name))
          /\ handler[s].k = "returned" /\ outcome[s] = None =>
                Count(events, "call") = 0 /\ request[s] = None

\* an invocation of add_watermark that went through every stage
C24_Witness ==
  \E s \in Slots :
     /\ pc[s] = "done"
     /\ call[s].name = "add_watermark"
     /\ handler[s].k = "returned"
     /\ Count(handler[s].events, "validate") = 2
     /\ Count(handler[s].events, "decode") = 1
     /\ Count(handler[s].events, "call") = 1
     /\ Count(handler[s].events, "encode") = 1
     /\ IsSuccessText(handler[s].text)

\* an invocation of add_watermark stopped by its second check
C24_StoppedByCheck ==
  \E s \in Slots :
     /\ pc[s] = "done"
     /\ call[s].name = "add_watermark"
     /\ handler[s].events = <<"validate", "validate", "return">>

\* ---------------------------------------------------------------- C25
\* where a data URL starts in a text, 0 when the text has none
DataUrlIndex(text) ==
  LET starts == {i \in 1..(Len(text) - Len(DataScheme) + 1) :
                   SubSeq(text, i, i + Len(DataScheme) - 1) = DataScheme}
  IN IF starts = {} THEN 0
     ELSE CHOOSE i \in starts : \A j \in starts : i <= j

\* the data URL a text carries, from its scheme to the end of the text
DataUrlOf(text) == SubSeq(text, DataUrlIndex(text), Len(text))

\* the upstream answered the one request of slot s with a 2xx response
AnsweredOnce(s) ==
  netCalls[s] = 1 /\ outcome[s] # None /\ outcome[s].k = "resolved"

\* C25: the returned text begins with the success marker and carries a data
\* URL exactly when one network call was issued and the upstream answered it
\* with a 2xx response, and the bytes that data URL decodes to are then the
\* bytes of the response; in every other case the text begins with the error
\* marker and carries no data URL.
C25_SuccessIffAnswered ==
  \A s \in Slots :
     pc[s] = "done" =>
       \E text \in {ResultText(s)} :
          /\ (IsSuccessText(text) /\ DataUrlIndex(text) > 0) <=> AnsweredOnce(s)
          /\ AnsweredOnce(s) =>
                \E decoded \in {base64ToBuffer(Str(DataUrlOf(text)))} :
                   ~decoded.thrown /\ decoded.value = outcome[s].response.data
          /\ ~AnsweredOnce(s) =>
                /\ IsFailureText(text)
                /\ ~IsSuccessText(text)
                /\ DataUrlIndex(text) = 0

\* compress_pdf answered with a non-empty body, returned as a data URL
C25_Witness ==
  \E s \in Slots :
     /\ pc[s] = "done"
     /\ call[s].name = "compress_pdf"
     /\ AnsweredOnce(s)
     /\ outcome[s].response.data = <<80, 75, 3, 4>>
     /\ DataUrlIndex(ResultText(s)) > 1

\* a failure text after the upstream refused the one request
C25_Refused ==
  \E s \in Slots :
     /\ pc[s] = "done"
     /\ netCalls[s] = 1
     /\ ~AnsweredOnce(s)
     /\ IsFailureText(ResultText(s))

\* ---------------------------------------------------------------- C26
\* the required textual argument a tool forwards, and the field it is sent as
ForwardedText(name) ==
  CASE name = "split_pdf"     -> <<"pageNumbers", "pageNumbers">>
    [] name = "add_watermark" -> <<"watermarkText", "watermarkText">>
    [] name = "remove_pages"  -> <<"pagesToRemove", "pagesToDelete">>

\* C26: whenever split_pdf, add_watermark or remove_pages issues a network
\* call, the required textual argument it forwards (pageNumbers,
\* watermarkText, pagesToRemove as pagesToDelete) is the trimmed value the
\* validator returned: it has no leading or trailing whitespace.
C26_ForwardedTrimmed ==
  \A s \in Slots :
     request[s] # None /\ call[s].name \in {"split_pdf", "add_watermark", "remove_pages"} =>
       \E arg \in {ArgOf(s, ForwardedText(call[s].name)[1])} :
          FieldValues(request[s].data, ForwardedText(call[s].name)[2])
            = {validateRequired(arg, ForwardedText(call[s].name)[1]).value.s}

\* a request whose forwarded text still has the whitespace around it
C26_UntrimmedForwarded ==
  \E s \in Slots :
     /\ request[s] # None
     /\ call[s].name = "remove_pages"
     /\ FieldValues(request[s].data, "pagesToDelete") = {<<" ", "2", " ">>}

====
